---- MODULE Spec2Model ----
(***************************************************************************)
(* Microsoft 365 Mail MCP tool: the SQLite token store (tokenStore.js),    *)
(* the validity check and the /execute_tool endpoint of index.js, the      *)
(* OAuth routes (auth.js), and the Graph client's retry/backoff and        *)
(* pagination helpers with the readers, searches and folder listings       *)
(* built on them (graph.js).                                               *)
(*                                                                         *)
(* The specifications share the variables:                                 *)
(*   SpecStore      the token store and the validity check, under a clock; *)
(*   SpecFetch      one httpGetWithBackoff call at a time against a remote *)
(*                  that may answer with any response of AllFaults;        *)
(*   SpecScan       the readers and searches paging through a mailbox,     *)
(*                  each page fetched by httpGetWithBackoff;               *)
(*   SpecBootstrap  searchSenderByNameBootstrap: the sample, then a crawl  *)
(*                  per discovered sender;                                 *)
(*   SpecFolders    listAllFolders and listSearchFolders with its          *)
(*                  fallback;                                              *)
(*   SpecAuth       /login and /auth/callback writing the token store;     *)
(*   SpecTool       /execute_tool from the API key check to the response,  *)
(*                  with the Graph calls of its actions;                   *)
(*   SpecServer     two /auth/callback requests in flight, /execute_tool   *)
(*                  and the sweep, over one table;                         *)
(*   SpecMint       /execute_tool minting a key, and the /auth/callback    *)
(*                  that carries the minted key.                           *)
(***************************************************************************)
EXTENDS Integers, Sequences, FiniteSets, TLC

VARIABLES
    \* ---- tokenStore.js / index.js
    store,      \* the tokens table: user_id -> row, or NoRec
    now,        \* Date.now(), epoch ms
    hist,       \* history: per user_id, the set() calls since its row was inserted
    ret,        \* the last store operation and what it returned
    \* ---- graph.js: httpGetWithBackoff
    mailbox,    \* the remote collection: its pages in link order
    faults,     \* the error responses the remote may give
    pc,         \* position of the httpGetWithBackoff call
    url,        \* the url of the call
    maxRetries, \* the maxRetries of the call
    attempt,    \* its local `attempt`
    gets,       \* axios.get calls issued by this call
    sleeps,     \* the seconds slept by this call, in order
    resp,       \* the last response (or error) axios.get gave this call
    outcome,    \* what the call returned or threw
    \* ---- graph.js: listMessages and its consumers
    scanPc,     \* position of the reader/search
    op,         \* which reader/search runs
    bound,      \* its top / max / limit
    out,        \* its `out` array
    idx,        \* index of the next item of the current page
    calls,      \* urls passed to httpGetWithBackoff by this scan, in order
    used,       \* per page returned to this scan, the number of its items consumed
    result,     \* what the reader/search returned or threw
    \* ---- graph.js: searchSenderByNameBootstrap
    remote,     \* the collections the remote holds: one per query
    bootPc,     \* position of the bootstrap
    bootArgs,   \* its name, maxAqs and perSenderLimit
    senders,    \* its `senders` Set, in insertion order
    all,        \* its `all` array
    crawled,    \* the emails passed to searchBySenderEmail, in order
    bootResult, \* what the bootstrap returned or threw
    \* ---- graph.js: listSearchFolders
    folderPc,   \* position of listSearchFolders
    tried,      \* history: how the listing of the well-known container ended
    folderResult, \* what listSearchFolders returned or threw
    \* ---- auth.js: GET /login, GET /auth/callback
    cb,         \* per request slot, the /auth/callback request awaiting axios.post
    authRes,    \* the last response the auth router sent (for one sent after
                \* the token exchange: with the request and the answer of the
                \* token endpoint)
    \* ---- index.js: POST /execute_tool
    toolPc,     \* position of the /execute_tool handler
    toolReq,    \* the request it serves, and when it arrived
    toolRes     \* the response it sent

storeVars == <<store, now, hist, ret>>
fetchVars == <<mailbox, faults, pc, url, maxRetries, attempt, gets, sleeps, resp, outcome>>
scanVars  == <<scanPc, op, bound, out, idx, calls, used, result>>
bootVars  == <<bootPc, bootArgs, senders, all, crawled, bootResult>>
folderVars == <<folderPc, tried, folderResult>>
\* the variables of the composite operations and of the HTTP handlers
authVars  == <<cb, authRes>>
toolVars  == <<toolPc, toolReq, toolRes>>
\* the variables of the composite operations and of the HTTP handlers
extVars   == <<remote, bootVars, folderVars, authVars, toolVars>>
\* what the bootstrap, listSearchFolders, the auth router and /execute_tool
\* leave alone
bootFrame == <<remote, storeVars, folderVars, authVars, toolVars>>
folderFrame == <<remote, storeVars, bootVars, authVars, toolVars>>
authFrame == <<fetchVars, scanVars, remote, bootVars, folderVars, toolVars>>
toolFrame == <<remote, storeVars, authVars>>
vars      == <<store, now, hist, ret,
               mailbox, faults, pc, url, maxRetries, attempt, gets, sleeps, resp, outcome,
               scanPc, op, bound, out, idx, calls, used, result,
               remote, bootPc, bootArgs, senders, all, crawled, bootResult,
               folderPc, tried, folderResult,
               cb, authRes,
               toolPc, toolReq, toolRes>>

Min(a, b) == IF a < b THEN a ELSE b

(***************************************************************************)
(* Strings: what the code does to text                                     *)
(***************************************************************************)

RECURSIVE TrimStart(_)
TrimStart(t) == IF t # "" /\ Head(t) = " " THEN TrimStart(Tail(t)) ELSE t

RECURSIVE TrimEnd(_)
TrimEnd(t) ==
    IF t # "" /\ SubSeq(t, Len(t), Len(t)) = " "
    THEN TrimEnd(SubSeq(t, 1, Len(t) - 1))
    ELSE t

\* String.prototype.trim
Trim(t) == TrimEnd(TrimStart(t))

UpperCaseLetters == "ABCDEFGHIJKLMNOPQRSTUVWXYZ"
LowerCaseLetters == "abcdefghijklmnopqrstuvwxyz"
LowerChar(c) ==
    IF \E i \in 1..Len(UpperCaseLetters) : SubSeq(UpperCaseLetters, i, i) = c
    THEN LET i == CHOOSE j \in 1..Len(UpperCaseLetters) : SubSeq(UpperCaseLetters, j, j) = c
         IN SubSeq(LowerCaseLetters, i, i)
    ELSE c

\* String.prototype.toLowerCase
RECURSIVE toLowerCase(_)
toLowerCase(t) == IF t = "" THEN "" ELSE LowerChar(Head(t)) \o toLowerCase(Tail(t))

\* String.prototype.includes
includes(t, sub) ==
    \E i \in 1..(Len(t) - Len(sub) + 1) : SubSeq(t, i, i + Len(sub) - 1) = sub

\* a.localeCompare(b) < 0 for names of letters and spaces: letter by letter,
\* case set aside, the space before every letter, a prefix before its
\* extensions.
CollationOrder == " " \o LowerCaseLetters
rank(c) == CHOOSE i \in 1..Len(CollationOrder) : SubSeq(CollationOrder, i, i) = LowerChar(c)

RECURSIVE localeBefore(_, _)
localeBefore(a, b) ==
    IF b = "" THEN FALSE
    ELSE IF a = "" THEN TRUE
    ELSE IF rank(Head(a)) # rank(Head(b)) THEN rank(Head(a)) < rank(Head(b))
    ELSE localeBefore(Tail(a), Tail(b))

(***************************************************************************)
(* tokenStore.js                                                           *)
(***************************************************************************)

\* Bounds of the store model: the clock runs from 0 to MaxTicks * TickMs.
MaxTicks == 2
TickMs == 30000

\* user_id values: the UUIDs /execute_tool hands out and accepts
Keys == {"6f1c2a34-0b5d-4e8f-9a7b-0123456789ab", "6F1C2A34-0B5D-4E8F-9A7B-0123456789AC"}
Null == "null"
Undefined == "undefined"
NoRec == [absent |-> TRUE]

\* Two grants that differ in access token and in scopes.
Grants == {<<"at1", "Mail.Read">>, <<"at2", "Mail.ReadWrite">>}
RefreshTokens == {"rt1"}
\* expiry is given relative to the time of the call
ExpiryOffsets == {TickMs, 4 * TickMs}

\* The argument objects of set(): refresh_token may be left out.
CredFields ==
    {[access_token |-> g[1], refresh_token |-> r, expiry |-> now + d, scopes |-> g[2]] :
        g \in Grants, r \in RefreshTokens \cup {Undefined}, d \in ExpiryOffsets}

\* `refresh_token = null` in the parameter list of set(): the default applies
\* to a missing (undefined) property only.
refreshTokenDefault(v) == IF v = Undefined THEN Null ELSE v

\* Mutant of upsertConflict: the row is replaced, created_at included.
upsertConflictReplace(old, k, c, ts) ==
    [user_id |-> k, access_token |-> c.access_token,
     refresh_token |-> c.refresh_token, expiry |-> c.expiry,
     scopes |-> c.scopes, created_at |-> ts, updated_at |-> ts]
\* Mutant of upsertConflict: a missing refresh_token keeps the stored one.
upsertConflictKeepRefresh(old, k, c, ts) ==
    [user_id |-> k, access_token |-> c.access_token,
     refresh_token |-> IF c.refresh_token = Null THEN old.refresh_token ELSE c.refresh_token,
     expiry |-> c.expiry, scopes |-> c.scopes,
     created_at |-> old.created_at, updated_at |-> ts]
\* The row written on conflict: every column but user_id and created_at is
\* taken from the new values.
upsertConflict(old, k, c, ts) ==
    [user_id |-> k, access_token |-> c.access_token,
     refresh_token |-> c.refresh_token, expiry |-> c.expiry,
     scopes |-> c.scopes, created_at |-> old.created_at, updated_at |-> ts]

\* INSERT ... ON CONFLICT(user_id) DO UPDATE
upsertStmt(s, k, c, ts) ==
    [s EXCEPT ![k] =
        IF s[k] = NoRec
        THEN [user_id |-> k, access_token |-> c.access_token,
              refresh_token |-> c.refresh_token, expiry |-> c.expiry,
              scopes |-> c.scopes, created_at |-> ts, updated_at |-> ts]
        ELSE upsertConflict(s[k], k, c, ts)]

\* SELECT * FROM tokens WHERE user_id = ?  (NoRec stands for the null that
\* get returns when there is no row)
getStmt(s, k) == s[k]

\* DELETE FROM tokens WHERE user_id = ?
delStmt(s, k) == [s EXCEPT ![k] = NoRec]

\* The WHERE clause of delExpiredStmt.
\* Mutant of expiredAt: a record expiring exactly now is kept.
expiredAtStrict(r, t) == r.expiry < t
\* Mutant of expiredAt: a record is swept two minutes before it expires.
expiredAtEarly(r, t) == r.expiry <= t + 120000
expiredAt(r, t) == r.expiry <= t

\* Mutant of delExpiredStmt: the expired rows are renewed in place.
delExpiredStmtRenew(s, t) ==
    [k \in DOMAIN s |->
        IF s[k] # NoRec /\ expiredAt(s[k], t) THEN [s[k] EXCEPT !.expiry = t + 3600000] ELSE s[k]]
\* DELETE FROM tokens WHERE expiry <= ?
delExpiredStmt(s, t) ==
    [k \in DOMAIN s |-> IF s[k] # NoRec /\ expiredAt(s[k], t) THEN NoRec ELSE s[k]]

\* .changes of the DELETE: the number of rows it removed.
changes(s, s2) == Cardinality({k \in DOMAIN s : s[k] # NoRec /\ s2[k] = NoRec})

NoHist == [n |-> 0]

\* history kept for the rows that are still there
histAfter(h, s2) == [k \in DOMAIN s2 |-> IF s2[k] = NoRec THEN NoHist ELSE h[k]]

\* tokenStore.set(k, c), wherever it is called from
callSet(k, c) ==
    LET ts == now
        args == [c EXCEPT !.refresh_token = refreshTokenDefault(c.refresh_token)]
    IN /\ store' = upsertStmt(store, k, args, ts)
       /\ hist' = [hist EXCEPT ![k] =
                     [n |-> Min(hist[k].n + 1, 2),
                      firstTs |-> IF hist[k].n = 0 THEN ts ELSE hist[k].firstTs,
                      c |-> c, ts |-> ts]]
       /\ ret' = [op |-> "set", key |-> k, at |-> now]

set(k, c) ==
    /\ callSet(k, c)
    /\ UNCHANGED now
    /\ UNCHANGED <<fetchVars, scanVars, extVars>>

get(k) ==
    /\ ret' = [op |-> "get", key |-> k, value |-> getStmt(store, k), at |-> now]
    /\ UNCHANGED <<store, now, hist>>
    /\ UNCHANGED <<fetchVars, scanVars, extVars>>

delete(k) ==
    /\ store' = delStmt(store, k)
    /\ hist' = histAfter(hist, store')
    /\ ret' = [op |-> "delete", key |-> k, at |-> now]
    /\ UNCHANGED now
    /\ UNCHANGED <<fetchVars, scanVars, extVars>>

deleteExpired ==
    /\ store' = delExpiredStmt(store, now)
    /\ hist' = histAfter(hist, store')
    /\ ret' = [op |-> "deleteExpired", value |-> changes(store, store'), at |-> now]
    /\ UNCHANGED now
    /\ UNCHANGED <<fetchVars, scanVars, extVars>>

(***************************************************************************)
(* index.js: getValidToken                                                 *)
(***************************************************************************)

skewMs == 60 * 1000

\* Mutant of usable: a record with exactly the skew left counts as usable.
usableInclusive(rec, t) == rec.expiry - skewMs >= t
\* rec.expiry - skewMs > Date.now()
usable(rec, t) == rec.expiry - skewMs > t

validToken(s, k, t) ==
    LET rec == getStmt(s, k)
    IN IF rec = NoRec THEN Null
       ELSE IF usable(rec, t) THEN rec.access_token
       ELSE Null

getValidToken(k) ==
    /\ ret' = [op |-> "getValidToken", key |-> k,
               value |-> validToken(store, k, now), at |-> now]
    /\ UNCHANGED <<store, now, hist>>
    /\ UNCHANGED <<fetchVars, scanVars, extVars>>

\* The clock advances.
Tick ==
    /\ now < MaxTicks * TickMs
    /\ now' = now + TickMs
    /\ UNCHANGED <<store, hist, ret>>
    /\ UNCHANGED <<fetchVars, scanVars, extVars>>


(***************************************************************************)
(* graph.js: the remote collection                                         *)
(***************************************************************************)

\* Bounds of the remote model: a collection has up to MaxItems items, served
\* in pages of up to MaxPageLen; a direct call passes a maxRetries up to
\* BigMaxRetries.
MaxItems == 5
MaxPageLen == 2
BigMaxRetries == 6

\* maxRetries = 4 in the parameter list of httpGetWithBackoff
DefaultMaxRetries == 4
\* the cap of the exponential backoff, in seconds
BackoffCap == 16

\* A url names a page of the remote and is written either in the form the
\* WHATWG URL serializer gives (raw = FALSE) or in another, equivalent form
\* (raw = TRUE).  The remote serves the same page for both.
\* no "@odata.nextLink" in a page
NoLink == [page |-> 0, raw |-> FALSE]
\* url.toString() of the URL a reader or search builds
StartUrl == [page |-> 1, raw |-> FALSE]

\* The link of the i-th page of a collection: opaque to the client, not in
\* numeric order (1, 3, 2, 5, 4, ...), and not always in serialized form.
LinkOf(i) ==
    IF i = 1 THEN StartUrl
    ELSE [page |-> IF i % 2 = 0 THEN i + 1 ELSE i - 1, raw |-> i % 2 = 0]

\* new URL(next) followed by toString(): the serialized form of the same url
newURL(u) == [u EXCEPT !.raw = FALSE]

\* receivedDateTime of the message with identifier n: all different, in no order
ReceivedOf(n) == (n * 5) % 13

RawMsg(n) ==
    [id |-> n, receivedDateTime |-> ReceivedOf(n), from |-> IF n % 2 = 0 THEN "a@x.com" ELSE "B@x.com"]

RECURSIVE SumTo(_, _)
SumTo(sizes, i) == IF i = 0 THEN 0 ELSE sizes[i] + SumTo(sizes, i - 1)

\* The collection whose i-th page has sizes[i] items, numbered through.
MailboxOf(sizes) ==
    [i \in 1..Len(sizes) |->
        [j \in 1..sizes[i] |-> RawMsg(SumTo(sizes, i - 1) + j)]]

\* items in pages of p
Paged(items, p) ==
    IF items = <<>> THEN << <<>> >>
    ELSE [i \in 1..((Len(items) + p - 1) \div p) |->
            SubSeq(items, (i - 1) * p + 1, Min(i * p, Len(items)))]

\* n items in pages of p: every page full but the last (one empty page when
\* n = 0).
ChunkSizes(n, p) ==
    LET full == n \div p
        rest == n % p
    IN IF n = 0 THEN <<0>>
       ELSE [i \in 1..(full + IF rest = 0 THEN 0 ELSE 1) |-> IF i <= full THEN p ELSE rest]

\* Pagings a server need not but may produce: empty and short pages that
\* carry a continuation link.
IrregularSizes == {<<0, 1>>, <<1, 0>>, <<1, 2>>, <<2, 0, 1>>}

PageSizes ==
    {ChunkSizes(n, p) : n \in 0..MaxItems, p \in 1..MaxPageLen} \cup IrregularSizes
Mailboxes == {MailboxOf(sz) : sz \in PageSizes}

\* pages of 2, 2 and 1 items
ExampleMailbox == MailboxOf(<<2, 2, 1>>)

\* The headers of a response: Retry-After is absent, a number of seconds, or
\* an HTTP date.
NoHeader == [kind |-> "absent", n |-> 0]
RetryAfterHeaders ==
    {NoHeader, [kind |-> "http-date", n |-> 0]}
        \cup {[kind |-> "seconds", n |-> v] : v \in {0, 3, 20}}

\* What axios.get rejects with: an HTTP error status, or no response at all
\* (timeout, connection error).
HttpError(status, h) ==
    [hasResponse |-> TRUE, status |-> status, retryAfter |-> h,
     data |-> [error |-> status]]
NoResponse ==
    [hasResponse |-> FALSE, status |-> 0, retryAfter |-> NoHeader,
     data |-> [error |-> 0]]

AllFaults ==
    {HttpError(429, h) : h \in RetryAfterHeaders}
        \cup {HttpError(503, h) : h \in {NoHeader, [kind |-> "seconds", n |-> 3]}}
        \cup {HttpError(500, NoHeader), HttpError(400, NoHeader),
              HttpError(404, [kind |-> "seconds", n |-> 3]), NoResponse}
ScanFaults == {HttpError(503, NoHeader), HttpError(404, NoHeader)}

\* The page the remote serves at u, as the body of a 200 response.
PageBody(mb, u) ==
    LET i == CHOOSE j \in 1..Len(mb) : LinkOf(j).page = u.page
    IN [value |-> mb[i],
        nextLink |-> IF i < Len(mb) THEN LinkOf(i + 1) ELSE NoLink]

Ok(mb, u) ==
    [hasResponse |-> TRUE, status |-> 200, retryAfter |-> NoHeader,
     data |-> PageBody(mb, u)]

\* Every answer the remote may give to GET u.
Responses(mb, u, fs) ==
    IF \E j \in 1..Len(mb) : LinkOf(j).page = u.page
    THEN {Ok(mb, u)} \cup fs
    ELSE {HttpError(404, NoHeader)} \cup fs

(***************************************************************************)
(* graph.js: httpGetWithBackoff                                            *)
(***************************************************************************)

\* axios resolves on a 2xx status and rejects otherwise
IsSuccess(r) == r.hasResponse /\ r.status >= 200 /\ r.status < 300

\* Mutant of retryableStatus: an error without a response is retried too.
retryableStatusOrNone(r) == ~r.hasResponse \/ r.status = 429 \/ r.status >= 500
\* s === 429 || s >= 500, with s = e.response?.status
retryableStatus(r) == r.hasResponse /\ (r.status = 429 \/ r.status >= 500)

\* Mutant of shouldRetry: one retry too many.
shouldRetryInclusive(r, att, mr) == retryableStatus(r) /\ att <= mr
\* (s === 429 || s >= 500) && attempt < maxRetries
shouldRetry(r, att, mr) == retryableStatus(r) /\ att < mr

\* Math.min(2 ** attempt, 16)
backoff(att) == Min(2 ^ att, BackoffCap)

\* Number(e.response?.headers?.["retry-after"]) || Math.min(2 ** attempt, 16):
\* Number() of a missing header or of an HTTP date is NaN, and NaN and 0 are
\* falsy.
retryDelay(r, att) ==
    IF r.retryAfter.kind = "seconds" /\ r.retryAfter.n # 0
    THEN r.retryAfter.n
    ELSE backoff(att)

NoOutcome == [kind |-> "none"]
NoResp == [hasResponse |-> FALSE, status |-> -1, retryAfter |-> NoHeader, data |-> [error |-> -1]]

\* Entry of httpGetWithBackoff(u, headers, mr): let attempt = 0.
\* Mutant of callBackoff: the attempt counter is carried over from the call
\* before.
callBackoffCarry(u, mr) ==
    /\ pc' = "get"
    /\ url' = u
    /\ maxRetries' = mr
    /\ attempt' = attempt
    /\ gets' = 0
    /\ sleeps' = <<>>
    /\ resp' = NoResp
    /\ outcome' = NoOutcome
\* let attempt = 0, on every call
callBackoff(u, mr) ==
    /\ pc' = "get"
    /\ url' = u
    /\ maxRetries' = mr
    /\ attempt' = 0
    /\ gets' = 0
    /\ sleeps' = <<>>
    /\ resp' = NoResp
    /\ outcome' = NoOutcome

\* The call against the collection already addressed.
enterBackoff(u, mr) ==
    /\ callBackoff(u, mr)
    /\ UNCHANGED <<mailbox, faults>>

\* A direct call of the exported helper.
httpGetWithBackoff(u, mr) ==
    /\ pc \in {"idle", "returned", "thrown"}
    /\ scanPc = "idle"
    /\ enterBackoff(u, mr)
    /\ UNCHANGED <<scanVars, storeVars, extVars>>

\* One turn of the loop: the GET, and the catch clause up to the start of the
\* sleep.
httpGetAttempt ==
    /\ pc = "get"
    /\ \E r \in Responses(mailbox, url, faults) :
        /\ gets' = gets + 1
        /\ resp' = r
        /\ IF IsSuccess(r)
           THEN /\ pc' = "returned"
                /\ outcome' = [kind |-> "return", value |-> r]
                /\ UNCHANGED sleeps
           ELSE IF shouldRetry(r, attempt, maxRetries)
           THEN /\ pc' = "sleep"
                /\ sleeps' = Append(sleeps, retryDelay(r, attempt))
                /\ UNCHANGED outcome
           ELSE /\ pc' = "thrown"
                /\ outcome' = [kind |-> "throw", value |-> r]
                /\ UNCHANGED sleeps
    /\ UNCHANGED <<mailbox, faults, url, maxRetries, attempt>>
    /\ UNCHANGED <<scanVars, storeVars, extVars>>

\* Mutant of httpGetWake: a retry whose delay came from Retry-After does not
\* count as an attempt.
httpGetWakeHeaderFree ==
    /\ pc = "sleep"
    /\ attempt' = IF resp.retryAfter.kind = "seconds" /\ resp.retryAfter.n # 0
                  THEN attempt ELSE attempt + 1
    /\ pc' = "get"
    /\ UNCHANGED <<mailbox, faults, url, maxRetries, gets, sleeps, resp, outcome>>
    /\ UNCHANGED <<scanVars, storeVars, extVars>>
\* The timer fires: attempt++; continue.
httpGetWake ==
    /\ pc = "sleep"
    /\ attempt' = attempt + 1
    /\ pc' = "get"
    /\ UNCHANGED <<mailbox, faults, url, maxRetries, gets, sleeps, resp, outcome>>
    /\ UNCHANGED <<scanVars, storeVars, extVars>>


(***************************************************************************)
(* graph.js: listMessages and the readers and searches built on it         *)
(***************************************************************************)

\* Bound of the scan model: top / max / limit range over -1..MaxBound.
MaxBound == 3

\* The default of top / max / limit in each parameter list.
defaultBound(o) ==
    CASE o \in {"readLatest", "readSentLatest"} -> 10
      [] o = "searchAllMail" -> 50
      [] o = "filterAllMailByDate" -> 200
      [] o = "searchBySenderEmail" -> 2000
      [] OTHER -> 1000

\* What a caller passes, or leaves to the default.
Bounds(o) == (-1..MaxBound) \cup {defaultBound(o)}

\* folderName / folderId / email: empty or not
Args == {"", "a"}

\* The readers that consume listMessages, and the searches that page in a
\* loop of their own (url = new URL(next)).
GeneratorOps ==
    {"readLatest", "readSentLatest", "readAllMailbox", "readFolderAll",
     "readFolderByIdAll", "filterAllMailByDate"}
LoopOps == {"searchAllMail", "searchAllMailAllPages", "searchBySenderEmail"}
\* the listings of folders: listCollection consumed without a bound
FolderOps == {"listAllFolders", "listCollection"}
\* the searches that sort `out` before they return
SortingOps == {"searchAllMail", "searchBySenderEmail"}

\* Normalize a Graph message into the compact shape (the fields the model
\* carries).
mapMsg(m) == [id |-> m.id, received |-> m.receivedDateTime, from |-> m.from]

\* Mutant of boundReached: the scan stops one item late.
boundReachedAfter(n, b) == n > b
\* out.length >= top
boundReached(n, b) == n >= b

\* Mutant of nextUrl: the next page is guessed from the current url.
nextUrlGuess(u, next) == [page |-> u.page + 1, raw |-> FALSE]
\* url = next: the continuation link is passed back as it came
nextUrl(u, next) == next

\* out.sort((a, b) => (a.received < b.received ? 1 : -1)), by insertion
RECURSIVE insertDesc(_, _)
insertDesc(m, s) ==
    IF s = <<>> THEN <<m>>
    ELSE IF Head(s).received < m.received THEN <<m>> \o s
    ELSE <<Head(s)>> \o insertDesc(m, Tail(s))

RECURSIVE sortDesc(_)
sortDesc(s) == IF s = <<>> THEN <<>> ELSE insertDesc(Head(s), sortDesc(Tail(s)))

\* out.sort((a, b) => (a.displayName || "").localeCompare(b.displayName || "")),
\* by insertion; folders whose names compare equal keep their order
RECURSIVE insertByName(_, _)
insertByName(f, s) ==
    IF s = <<>> THEN <<f>>
    ELSE IF localeBefore(Head(s).displayName, f.displayName)
         THEN <<Head(s)>> \o insertByName(f, Tail(s))
    ELSE <<f>> \o s

RECURSIVE sortByName(_)
sortByName(s) == IF s = <<>> THEN <<>> ELSE insertByName(Head(s), sortByName(Tail(s)))

\* { results: out, count: out.length, ... } with the tag (folder, folderId or
\* email) some operations add; listAllFolders returns its sorted `out`, and
\* a listCollection that is consumed directly ends with what it yielded.
returnValue(o, acc, tag) ==
    LET res == IF o \in SortingOps THEN sortDesc(acc)
               ELSE IF o = "listAllFolders" THEN sortByName(acc)
               ELSE acc
    IN [kind |-> "return", results |-> res, count |-> Len(res), tag |-> tag]

NoResult == [kind |-> "none"]

\* Entry of a reader or search: the first page is asked for when the loop (or
\* the generator's first next()) starts.
beginScan(o, b, tag) ==
    /\ scanPc \in {"idle", "returnedAtBound", "returnedAtEnd", "failed"}
    /\ pc \in {"idle", "returned", "thrown"}
    /\ op' = o
    /\ bound' = b
    /\ out' = <<>>
    /\ idx' = 1
    /\ calls' = <<StartUrl>>
    /\ used' = <<0>>
    /\ result' = [kind |-> "running", tag |-> tag]
    /\ scanPc' = "scan"
    /\ callBackoff(StartUrl, DefaultMaxRetries)

\* A reader or search called on its own, against the collection already
\* addressed.
enterScan(o, b, tag) ==
    /\ beginScan(o, b, tag)
    /\ UNCHANGED <<mailbox, faults>>
    /\ UNCHANGED <<storeVars, extVars>>

\* if (!folderId) throw / if (!email) throw: no request is made
rejectScan(o, msg) ==
    /\ scanPc \in {"idle", "returnedAtBound", "returnedAtEnd", "failed"}
    /\ pc \in {"idle", "returned", "thrown"}
    /\ op' = o
    /\ scanPc' = "failed"
    /\ result' = [kind |-> "throw", message |-> msg]
    /\ out' = <<>>
    /\ calls' = <<>>
    /\ used' = <<>>
    /\ UNCHANGED <<bound, idx, fetchVars, storeVars, extVars>>

readLatest == \E top \in Bounds("readLatest") : enterScan("readLatest", top, "")

readSentLatest == \E top \in Bounds("readSentLatest") : enterScan("readSentLatest", top, "")

readAllMailbox == \E max \in Bounds("readAllMailbox") : enterScan("readAllMailbox", max, "")

readFolderAll ==
    \E max \in Bounds("readFolderAll"), folderName \in Args : enterScan("readFolderAll", max, folderName)

readFolderByIdAll ==
    \E max \in Bounds("readFolderByIdAll"), folderId \in Args :
        IF folderId = ""
        THEN rejectScan("readFolderByIdAll", "folderId is required")
        ELSE enterScan("readFolderByIdAll", max, folderId)

filterAllMailByDate == \E top \in Bounds("filterAllMailByDate") : enterScan("filterAllMailByDate", top, "")

searchAllMail == \E top \in Bounds("searchAllMail") : enterScan("searchAllMail", top, "")

searchAllMailAllPages == \E max \in Bounds("searchAllMailAllPages") : enterScan("searchAllMailAllPages", max, "")

searchBySenderEmail ==
    \E limit \in Bounds("searchBySenderEmail"), email \in Args :
        IF email = ""
        THEN rejectScan("searchBySenderEmail", "email is required")
        ELSE enterScan("searchBySenderEmail", limit, email)

\* The items of the page in hand: resp.data?.value || []
pageItems == outcome.value.data.value

\* `for (const m of items) yield m` met by the consumer's body:
\* out.push(mapMsg(m)); if (out.length >= bound) break / return.
consumeItem ==
    /\ scanPc = "scan"
    /\ pc = "returned"
    /\ op \notin FolderOps
    /\ idx <= Len(pageItems)
    /\ LET acc == Append(out, mapMsg(pageItems[idx]))
       IN /\ out' = acc
          /\ used' = [used EXCEPT ![Len(used)] = @ + 1]
          /\ IF boundReached(Len(acc), bound)
             THEN /\ scanPc' = "returnedAtBound"
                  /\ result' = returnValue(op, acc, result.tag)
                  /\ UNCHANGED idx
             ELSE /\ idx' = idx + 1
                  /\ UNCHANGED <<scanPc, result>>
    /\ UNCHANGED <<op, bound, calls, fetchVars, storeVars, extVars>>

\* The page is used up: follow "@odata.nextLink", or end without one.
pageEnd ==
    /\ scanPc = "scan"
    /\ pc = "returned"
    /\ idx > Len(pageItems)
    /\ LET next == outcome.value.data.nextLink
       IN IF next = NoLink
          THEN /\ scanPc' = "returnedAtEnd"
               /\ result' = returnValue(op, out, result.tag)
               /\ UNCHANGED <<idx, calls, used, fetchVars>>
          ELSE LET u == IF op \in LoopOps THEN newURL(nextUrl(url, next))
                             ELSE nextUrl(url, next)
               IN /\ calls' = Append(calls, u)
                  /\ used' = Append(used, 0)
                  /\ idx' = 1
                  /\ enterBackoff(u, DefaultMaxRetries)
                  /\ UNCHANGED <<scanPc, result>>
    /\ UNCHANGED <<op, bound, out, storeVars, extVars>>

\* Mutant of scanThrow: the error is swallowed and what was collected is
\* returned.
scanThrowPartial ==
    /\ scanPc = "scan"
    /\ pc = "thrown"
    /\ scanPc' = "returnedAtEnd"
    /\ result' = returnValue(op, out, result.tag)
    /\ UNCHANGED <<op, bound, out, idx, calls, used, fetchVars, storeVars, extVars>>
\* httpGetWithBackoff threw: nothing catches it, the reader or search throws.
scanThrow ==
    /\ scanPc = "scan"
    /\ pc = "thrown"
    /\ scanPc' = "failed"
    /\ result' = [kind |-> "throw", error |-> outcome.value]
    /\ UNCHANGED <<op, bound, out, idx, calls, used, fetchVars, storeVars, extVars>>

(***************************************************************************)
(* graph.js: listAllFolders and listSearchFolders                          *)
(***************************************************************************)

\* A mailFolder; "" stands for one without displayName (f.displayName || "").
Folder(n, name) == [id |-> n, displayName |-> name]

FoldersOf(names) == Paged([n \in 1..Len(names) |-> Folder(n, names[n])], MaxPageLen)

\* The children of the well-known container 'searchfolders': none, one, or
\* three in two pages.
SearchFolderNames == {<<>>, <<"Unread Mail">>, <<"Unread Mail", "big", "Flagged">>}

\* All folders of the mailbox: with or without names that hold both
\* "search" and "folder".
AllFolderNames ==
    {<<"Inbox", "Search Folders", "", "my search folder">>,
     <<"Sent Items", "research", "Folder A">>}

FolderRemotes ==
    {[searchfolders |-> FoldersOf(s), mailFolders |-> FoldersOf(a)] :
        s \in SearchFolderNames, a \in AllFolderNames}

NoTry == [ended |-> "none", fellBack |-> FALSE]

\* const name = (f.displayName || "").toLowerCase();
\* return name.includes("search") && name.includes("folder");
looksLikeSearchFolder(f) ==
    LET name == toLowerCase(f.displayName)
    IN includes(name, "search") /\ includes(name, "folder")

\* all.filter(...)
RECURSIVE candidates(_)
candidates(fs) ==
    IF fs = <<>> THEN <<>>
    ELSE IF looksLikeSearchFolder(Head(fs)) THEN <<Head(fs)>> \o candidates(Tail(fs))
    ELSE candidates(Tail(fs))

\* listAllFolders called on its own.
listAllFolders ==
    /\ folderPc \in {"idle", "returned", "failed"}
    /\ beginScan("listAllFolders", 0, "")
    /\ mailbox' = remote.mailFolders
    /\ UNCHANGED <<faults, folderVars, folderFrame>>

\* for await (const f of listCollection(...)) out.push(f)
collectFolder ==
    /\ scanPc = "scan"
    /\ pc = "returned"
    /\ op \in FolderOps
    /\ idx <= Len(pageItems)
    /\ out' = Append(out, pageItems[idx])
    /\ used' = [used EXCEPT ![Len(used)] = @ + 1]
    /\ idx' = idx + 1
    /\ UNCHANGED <<scanPc, op, bound, calls, result, fetchVars, storeVars, extVars>>

\* Entry of listSearchFolders: the children of the well-known container are
\* asked for inside the try block.
beginSearchFolders ==
    /\ folderPc \in {"idle", "returned", "failed"}
    /\ folderPc' = "try"
    /\ tried' = NoTry
    /\ folderResult' = NoResult
    /\ beginScan("listCollection", 0, "")
    /\ mailbox' = remote.searchfolders
    /\ UNCHANGED faults

\* listSearchFolders called on its own.
listSearchFolders ==
    /\ beginSearchFolders
    /\ UNCHANGED folderFrame

\* The try block is left, by its end or through catch (_) {}: with an empty
\* `out` all folders are listed, otherwise `out` is sorted and returned.
searchFoldersTried ==
    /\ folderPc = "try"
    /\ scanPc \in {"returnedAtEnd", "failed"}
    /\ LET ended == IF scanPc = "failed" THEN "failed" ELSE "completed"
       IN IF Len(out) = 0
          THEN /\ folderPc' = "fallback"
               /\ tried' = [ended |-> ended, fellBack |-> TRUE]
               /\ beginScan("listAllFolders", 0, "")
               /\ mailbox' = remote.mailFolders
               /\ UNCHANGED <<faults, folderResult>>
          ELSE /\ folderPc' = "returned"
               /\ tried' = [ended |-> ended, fellBack |-> FALSE]
               /\ folderResult' = [kind |-> "return", folders |-> sortByName(out)]
               /\ UNCHANGED <<fetchVars, scanVars>>
    /\ UNCHANGED folderFrame

\* listAllFolders is back: the candidates are returned; or it threw, and so
\* does listSearchFolders.
searchFoldersFallback ==
    /\ folderPc = "fallback"
    /\ scanPc \in {"returnedAtEnd", "failed"}
    /\ IF scanPc = "failed"
       THEN /\ folderPc' = "failed"
            /\ folderResult' = result
       ELSE /\ folderPc' = "returned"
            /\ folderResult' = [kind |-> "return", folders |-> candidates(result.results)]
    /\ UNCHANGED <<tried, fetchVars, scanVars, folderFrame>>

(***************************************************************************)
(* graph.js: searchSenderByNameBootstrap                                   *)
(***************************************************************************)

\* maxAqs = 300, perSenderLimit = 2000 in the parameter list
DefaultMaxAqs == 300
DefaultPerSenderLimit == 2000

\* A message whose sender address is addr; "" stands for a message without
\* one (m.from || "").
MsgFrom(n, addr) == [id |-> n, receivedDateTime |-> ReceivedOf(n), from |-> addr]

\* The sender addresses of the messages "from:<name>" matches, in the order
\* the remote lists them.
SampleFroms ==
    {<<>>,
     <<"", " ">>,
     <<"a@x.com", "A@x.com", " a@x.com ">>,
     <<"B@x.com", "a@x.com", "">>,
     <<"a@x.com", "b@x.com">>}

SampleOf(froms) == Paged([n \in 1..Len(froms) |-> MsgFrom(n, froms[n])], MaxPageLen)

\* What the exact-address filter matches, per address: histories of 3 and 2
\* messages that share message 3, or histories of 2 and 0 messages.
CrawlIds ==
    {[a |-> <<1, 2, 3>>, b |-> <<3, 4>>],
     [a |-> <<2, 1>>, b |-> <<>>]}

HistoryOf(ids, addr) == Paged([i \in 1..Len(ids) |-> MsgFrom(ids[i], addr)], MaxPageLen)

Remotes ==
    {[sample |-> SampleOf(f),
      a |-> HistoryOf(c.a, "a@x.com"),
      b |-> HistoryOf(c.b, "b@x.com")] : f \in SampleFroms, c \in CrawlIds}

NoRemote == [sample |-> << <<>> >>, a |-> << <<>> >>, b |-> << <<>> >>]

\* The collection the filter on `email` addresses.
HistoryAt(rm, email) ==
    CASE email = "a@x.com" -> rm.a
      [] email = "b@x.com" -> rm.b
      [] OTHER -> << <<>> >>

NoArgs == [name |-> "", maxAqs |-> 0, perSenderLimit |-> 0]

\* const addr = (m.from || "").trim(); if (addr) senders.add(addr.toLowerCase())
addSender(found, from) ==
    LET addr == Trim(from)
    IN IF addr = "" THEN found
       ELSE IF \E i \in 1..Len(found) : found[i] = toLowerCase(addr) THEN found
       ELSE Append(found, toLowerCase(addr))

\* for (const m of aqs.results) ...
RECURSIVE collectSenders(_, _)
collectSenders(found, results) ==
    IF results = <<>> THEN found
    ELSE collectSenders(addSender(found, Head(results).from), Tail(results))

\* Mutant of uniqById: nothing is dropped.
uniqByIdKeepAll(seen, items) == items
\* all.filter(m => (seen.has(m.id) ? false : (seen.add(m.id), true)))
RECURSIVE uniqById(_, _)
uniqById(seen, items) ==
    IF items = <<>> THEN <<>>
    ELSE IF Head(items).id \in seen THEN uniqById(seen, Tail(items))
    ELSE <<Head(items)>> \o uniqById(seen \cup {Head(items).id}, Tail(items))

\* searchBySenderEmail({ access_token, email, limit: perSenderLimit })
crawlSender(email) ==
    /\ beginScan("searchBySenderEmail", bootArgs.perSenderLimit, email)
    /\ mailbox' = HistoryAt(remote, email)
    /\ crawled' = Append(crawled, email)
    /\ UNCHANGED faults

\* Entry of the bootstrap: if (!name) throw; else the phase-1 sample is asked
\* for.
beginBootstrap(name, maxAqs, perSenderLimit) ==
    /\ bootPc \in {"idle", "returned", "failed"}
    /\ bootArgs' = [name |-> name, maxAqs |-> maxAqs, perSenderLimit |-> perSenderLimit]
    /\ senders' = <<>>
    /\ all' = <<>>
    /\ crawled' = <<>>
    /\ IF name = ""
       THEN /\ bootPc' = "failed"
            /\ bootResult' = [kind |-> "throw", message |-> "name is required"]
            /\ UNCHANGED <<fetchVars, scanVars>>
       ELSE /\ bootPc' = "sample"
            /\ bootResult' = NoResult
            /\ beginScan("searchAllMailAllPages", maxAqs, "")
            /\ mailbox' = remote.sample
            /\ UNCHANGED faults

\* The bootstrap called on its own.
searchSenderByNameBootstrap ==
    \E name \in {"", "n"}, maxAqs \in {1, 2, DefaultMaxAqs},
       perSenderLimit \in {2, DefaultPerSenderLimit} :
        /\ beginBootstrap(name, maxAqs, perSenderLimit)
        /\ UNCHANGED bootFrame

\* The sample is in: collect the senders, return if there is none, else start
\* the crawl of the first.
bootstrapSample ==
    /\ bootPc = "sample"
    /\ scanPc \in {"returnedAtBound", "returnedAtEnd"}
    /\ LET found == collectSenders(<<>>, result.results)
       IN /\ senders' = found
          /\ IF found = <<>>
             THEN /\ bootPc' = "returned"
                  /\ bootResult' = [kind |-> "return", results |-> <<>>, count |-> 0,
                                    discoveredSenders |-> <<>>]
                  /\ UNCHANGED <<crawled, fetchVars, scanVars>>
             ELSE /\ bootPc' = "crawl"
                  /\ crawlSender(found[1])
                  /\ UNCHANGED bootResult
    /\ UNCHANGED <<bootArgs, all, bootFrame>>

\* A crawl is in: all.push(...res.results); then the next sender, or dedupe,
\* sort and return.
bootstrapCrawl ==
    /\ bootPc = "crawl"
    /\ scanPc \in {"returnedAtBound", "returnedAtEnd"}
    /\ LET acc == all \o result.results
           uniq == sortDesc(uniqById({}, acc))
       IN /\ all' = acc
          /\ IF Len(crawled) < Len(senders)
             THEN /\ crawlSender(senders[Len(crawled) + 1])
                  /\ UNCHANGED <<bootPc, bootResult>>
             ELSE /\ bootPc' = "returned"
                  /\ bootResult' = [kind |-> "return", results |-> uniq, count |-> Len(uniq),
                                    discoveredSenders |-> senders]
                  /\ UNCHANGED <<crawled, fetchVars, scanVars>>
    /\ UNCHANGED <<bootArgs, senders, bootFrame>>

\* The sample or a crawl threw: nothing catches it, the bootstrap throws.
bootstrapThrow ==
    /\ bootPc \in {"sample", "crawl"}
    /\ scanPc = "failed"
    /\ bootPc' = "failed"
    /\ bootResult' = result
    /\ UNCHANGED <<bootArgs, senders, all, crawled, fetchVars, scanVars, bootFrame>>

(***************************************************************************)
(* auth.js: GET /login and GET /auth/callback                              *)
(***************************************************************************)

\* (process.env.SCOPES || "Mail.ReadWrite").trim()
SCOPES == Trim("Mail.ReadWrite ")
AUTH_URL == "https://login.microsoftonline.com/TENANT_ID/oauth2/v2.0/authorize"

\* The /auth/callback requests that may be awaiting the token endpoint at
\* the same time.
Slots == {1, 2}

\* !v of a query parameter: missing or empty
falsy(v) == v = Undefined \/ v = ""

\* v || "" and v || null
orEmpty(v) == IF falsy(v) THEN "" ELSE v
orNull(v) == IF falsy(v) THEN Null ELSE v

\* URLSearchParams.prototype.toString of one value: the
\* application/x-www-form-urlencoded serializer, for the characters the model
\* uses.
formEncodeChar(c) ==
    CASE c = " " -> "+"
      [] c = "+" -> "%2B"
      [] c = "%" -> "%25"
      [] OTHER -> c

RECURSIVE formEncode(_)
formEncode(t) == IF t = "" THEN "" ELSE formEncodeChar(Head(t)) \o formEncode(Tail(t))

\* What the authorization endpoint reads back from the query string.
RECURSIVE formDecode(_)
formDecode(t) ==
    IF t = "" THEN ""
    ELSE IF Head(t) = "+" THEN " " \o formDecode(Tail(t))
    ELSE IF Len(t) >= 3 /\ SubSeq(t, 1, 3) = "%2B" THEN "+" \o formDecode(SubSeq(t, 4, Len(t)))
    ELSE IF Len(t) >= 3 /\ SubSeq(t, 1, 3) = "%25" THEN "%" \o formDecode(SubSeq(t, 4, Len(t)))
    ELSE Head(t) \o formDecode(Tail(t))

\* req.query of GET /login
LoginQueries ==
    {[user_id |-> v] : v \in {Undefined, "", "  ", " u1 ", "a +b%"}}

\* Mutant of loginUserId: the key is not trimmed.
loginUserIdRaw(q) == orEmpty(q.user_id)
\* (req.query.user_id || "").toString().trim()
loginUserId(q) == Trim(orEmpty(q.user_id))

\* new URLSearchParams({...}), serialized into the redirect target
authorizeUrl(user_id) ==
    [url |-> AUTH_URL,
     params |-> [response_type |-> "code", response_mode |-> "query",
                 scope |-> formEncode(SCOPES), state |-> formEncode(user_id),
                 prompt |-> "select_account"]]

NoCallback == [pc |-> "idle"]
NoResponseSent == [route |-> "none"]

\* GET /login: synchronous, one step.
login(q) ==
    /\ LET user_id == loginUserId(q)
       IN IF user_id = ""
          THEN authRes' = [route |-> "/login", req |-> q, status |-> 400, type |-> "json",
                           body |-> [error |-> "Missing user_id. Call /execute_tool first to get login_url + user_id."]]
          ELSE authRes' = [route |-> "/login", req |-> q, status |-> 302, type |-> "redirect",
                           location |-> authorizeUrl(user_id)]
    /\ UNCHANGED <<cb, storeVars, authFrame>>

\* req.query of GET /auth/callback: with and without code, state and error,
\* and the complete ones also with format=JSON
CallbackQueries ==
    {[code |-> c, state |-> st, error |-> e, format |-> Undefined] :
        c \in {Undefined, "", "c1"}, st \in {Undefined} \cup Keys,
        e \in {Undefined, "access_denied"}}
        \cup {[code |-> "c1", state |-> st, error |-> Undefined, format |-> "JSON"] :
                st \in Keys}

\* Mutant of callbackRejection: the provider's error parameter is not looked
\* at.
callbackRejectionIgnoreError(q) ==
    IF falsy(q.code) \/ falsy(q.state) THEN "missing" ELSE "none"
\* if (error) return ...; if (!code || !user_id) return ...
callbackRejection(q) ==
    IF ~falsy(q.error) THEN "oauth_error"
    ELSE IF falsy(q.code) \/ falsy(q.state) THEN "missing"
    ELSE "none"

\* tokenResp.data of a 2xx answer: with a refresh token, without one, and a
\* body that lacks the access token.
TokenBodies ==
    {[access_token |-> "at1", refresh_token |-> "rt1", expires_in |-> 120],
     [access_token |-> "at2", refresh_token |-> Undefined, expires_in |-> 30],
     [access_token |-> Undefined, refresh_token |-> "rt1", expires_in |-> 120]}

\* Every answer the token endpoint may give to the POST: 2xx, an error
\* status with the provider's error body, or no response at all.
TokenAnswers ==
    {[hasResponse |-> TRUE, status |-> 200, data |-> d] : d \in TokenBodies}
        \cup {[hasResponse |-> TRUE, status |-> 400, data |-> [error |-> "invalid_grant"]],
              [hasResponse |-> FALSE, status |-> 0, message |-> "Network Error"]}

\* err.response?.data || err.message
errorOf(e) == IF e.hasResponse THEN e.data ELSE e.message

\* Mutant of expiryOf: expires_in is taken for milliseconds.
expiryOfMillis(t, expires_in) == t + expires_in
\* Date.now() + (expires_in * 1000)
expiryOf(t, expires_in) == t + (expires_in * 1000)

\* access_token TEXT NOT NULL: the statement fails for a missing value
violatesNotNull(c) == c.access_token = Undefined

\* Mutant of failedWrite: the row is written before the statement fails.
failedWritePartial(s, k, c, ts) == upsertStmt(s, k, c, ts)
\* A statement that fails leaves the table as it was.
failedWrite(s, k, c, ts) == s

\* The handler up to `await axios.post(TOKEN_URL, ...)`.
authCallback(i, q) ==
    /\ cb[i].pc = "idle"
    /\ LET why == callbackRejection(q)
       IN CASE why = "oauth_error" ->
                 /\ authRes' = [route |-> "/auth/callback",
                                status |-> 400, type |-> "text",
                                body |-> [text |-> "OAuth error", error |-> q.error]]
                 /\ UNCHANGED cb
            [] why = "missing" ->
                 /\ authRes' = [route |-> "/auth/callback",
                                status |-> 400, type |-> "text",
                                body |-> [text |-> "Missing authorization code or state (user_id)."]]
                 /\ UNCHANGED cb
            [] OTHER ->
                 /\ cb' = [cb EXCEPT ![i] = [pc |-> "exchange", query |-> q]]
                 /\ UNCHANGED authRes
    /\ UNCHANGED <<storeVars, authFrame>>

\* The POST settles: on a 2xx answer tokenStore.set and the success page (or
\* JSON); on a rejection, or when set throws, the catch clause.
exchangeReturns(i) ==
    /\ cb[i].pc = "exchange"
    /\ \E r \in TokenAnswers :
        LET q == cb[i].query
            user_id == q.state
        IN /\ cb' = [cb EXCEPT ![i] = NoCallback]
           /\ IF ~IsSuccess(r)
              THEN /\ authRes' = [route |-> "/auth/callback", req |-> q, answer |-> r,
                                  status |-> 400, type |-> "json",
                                  body |-> [error |-> errorOf(r)]]
                   /\ UNCHANGED <<store, hist, ret>>
              ELSE LET c == [access_token |-> r.data.access_token,
                             refresh_token |-> orNull(r.data.refresh_token),
                             expiry |-> expiryOf(now, r.data.expires_in),
                             scopes |-> SCOPES]
                   IN IF violatesNotNull(c)
                      THEN /\ store' = failedWrite(store, user_id, c, now)
                           /\ authRes' = [route |-> "/auth/callback", req |-> q, answer |-> r,
                                          status |-> 400, type |-> "json",
                                          body |-> [error |-> "NOT NULL constraint failed: tokens.access_token"]]
                           /\ UNCHANGED <<hist, ret>>
                      ELSE /\ callSet(user_id, c)
                           /\ authRes' =
                                IF toLowerCase(orEmpty(q.format)) = "json"
                                THEN [route |-> "/auth/callback", req |-> q, answer |-> r,
                                      status |-> 200, type |-> "json",
                                      body |-> [status |-> "logged_in", user_id |-> user_id,
                                                expires_in |-> r.data.expires_in]]
                                ELSE [route |-> "/auth/callback", req |-> q, answer |-> r,
                                      status |-> 200, type |-> "html"]
    /\ UNCHANGED <<now, authFrame>>

(***************************************************************************)
(* index.js: POST /execute_tool                                            *)
(***************************************************************************)

\* process.env.API_KEY || "CROWDdoingtools"
API_KEY == "CROWDdoingtools"
\* process.env.PUBLIC_BASE_URL || `http://localhost:${PORT}`
BASE_URL == "http://localhost:3001"

charAt(t, i) == SubSeq(t, i, i)
isOneOf(c, chars) == \E i \in 1..Len(chars) : charAt(chars, i) = c

\* String.prototype.startsWith
startsWith(t, prefix) == Len(t) >= Len(prefix) /\ SubSeq(t, 1, Len(prefix)) = prefix
\* String.prototype.slice(n)
slice(t, n) == SubSeq(t, n + 1, Len(t))

\* Mutant of providedKey: whatever the header, the key counts as given.
providedKeyTrusting(authorization) == API_KEY
\* authHeader.startsWith("Bearer ") ? authHeader.slice(7) : null
providedKey(authorization) ==
    LET authHeader == orEmpty(authorization)
    IN IF startsWith(authHeader, "Bearer ") THEN slice(authHeader, 7) ELSE Null

\* /^[0-9a-f]{8}-[0-9a-f]{4}-[1-5][0-9a-f]{3}-[89ab][0-9a-f]{3}-[0-9a-f]{12}$/i
UUID_RE(t) ==
    /\ Len(t) = 36
    /\ \A i \in 1..36 :
        LET c == LowerChar(charAt(t, i))
        IN CASE i \in {9, 14, 19, 24} -> c = "-"
             [] i = 15 -> isOneOf(c, "12345")
             [] i = 20 -> isOneOf(c, "89ab")
             [] OTHER -> isOneOf(c, "0123456789abcdef")

BAD_TOKENS == {"", "new", "temp", "current", "me", "self"}

\* !user_id || BAD_TOKENS.has(user_id.toLowerCase()) || !UUID_RE.test(user_id)
userIdRefused(user_id) ==
    user_id = "" \/ toLowerCase(user_id) \in BAD_TOKENS \/ ~UUID_RE(user_id)

\* crypto.randomUUID(): a key no request has used
MintedIds == {"0a1b2c3d-4e5f-4a6b-8c7d-9e8f7a6b5c4d"}

\* encodeURIComponent, for the characters the model uses
encodeURIComponentChar(c) ==
    CASE c = " " -> "%20"
      [] c = "+" -> "%2B"
      [] c = "%" -> "%25"
      [] OTHER -> c

RECURSIVE encodeURIComponent(_)
encodeURIComponent(t) ==
    IF t = "" THEN "" ELSE encodeURIComponentChar(Head(t)) \o encodeURIComponent(Tail(t))

\* Mutant of loginUrl: the link always names the placeholder key.
loginUrlTemp(user_id) == BASE_URL \o "/login?user_id=temp"
\* `${BASE_URL}/login?user_id=${encodeURIComponent(user_id)}`
loginUrl(user_id) == BASE_URL \o "/login?user_id=" \o encodeURIComponent(user_id)

\* The actions of the dispatch, and one it does not know.
ToolActions ==
    {"read", "read_sent", "read_all", "list_folders", "read_folder_all",
     "read_folder_id_all", "list_search_folders", "read_search_folder_id_all",
     "read_relative", "search", "search_all", "search_by_date",
     "search_sender_email", "search_sender_name_bootstrap", "delete_all"}

\* The reader or search an action calls.
readerOf(action) ==
    CASE action = "read" -> "readLatest"
      [] action = "read_sent" -> "readSentLatest"
      [] action = "read_all" -> "readAllMailbox"
      [] action = "read_folder_all" -> "readFolderAll"
      [] action \in {"read_folder_id_all", "read_search_folder_id_all"} -> "readFolderByIdAll"
      [] action \in {"read_relative", "search_by_date"} -> "filterAllMailByDate"
      [] action = "search" -> "searchAllMail"
      [] action = "search_all" -> "searchAllMailAllPages"
      [] action = "search_sender_email" -> "searchBySenderEmail"

\* The default of the action's top / max / limit in the dispatch.
toolDefault(action) ==
    CASE action \in {"read", "read_sent"} -> 10
      [] action = "read_relative" -> 5000
      [] action = "search" -> 50
      [] action = "search_by_date" -> 200
      [] action = "search_sender_email" -> 2000
      [] OTHER -> 1000

\* Number(inputs?.top || 10) and its like: 0 stands for a missing value too,
\* both give the default.
numberOr(v, d) == IF v = 0 THEN d ELSE v

\* String(inputs?.folderId || "").trim() and its like
stringOr(v, d) == IF falsy(v) THEN d ELSE v

\* The message of the 400 an action answers when its argument is missing.
requiredMessage(action) ==
    CASE action \in {"read_folder_id_all", "read_search_folder_id_all"} -> "folderId is required"
      [] action = "search_by_date" -> "startIso and endIso are required (ISO 8601)"
      [] action = "search_sender_email" -> "email is required"
      [] action = "search_sender_name_bootstrap" -> "name is required"

\* DateTime.fromISO(on, { zone: tz }).isValid, for the dates the model uses
isValidDate(on) == on \in {"2024-05-01"}

\* req.headers.authorization
Authorizations == {Undefined, "CROWDdoingtools", "Bearer wrong", "Bearer CROWDdoingtools"}

\* req.body.user_id
BodyUserIds ==
    {Undefined, " TEMP ", "not-a-uuid"} \cup Keys
        \cup {" " \o k \o " " : k \in {"6f1c2a34-0b5d-4e8f-9a7b-0123456789ab"}}

\* req.body.inputs: the action's top / max / limit (bound) and its string
\* argument (arg: folder, folderId, q, email, name, startIso and endIso, or
\* the `on` of intent on_date)
ToolInputs == {[bound |-> b, arg |-> a] : b \in {0, 2}, a \in {Undefined, " x "}}

\* Every action with every input under a good API key and a well-formed
\* user_id, "read" under every authorization header and user_id, and an
\* action without its folderId and an unknown action under a wrong API key
\* and under a malformed user_id.
ToolRequests ==
    {[authorization |-> "Bearer CROWDdoingtools", user_id |-> u, action |-> a, inputs |-> i] :
        u \in Keys, a \in ToolActions, i \in ToolInputs}
        \cup {[authorization |-> h, user_id |-> u, action |-> "read",
                inputs |-> [bound |-> 0, arg |-> Undefined]] :
                h \in Authorizations, u \in BodyUserIds}
        \cup {[authorization |-> h, user_id |-> u, action |-> a,
                inputs |-> [bound |-> 0, arg |-> Undefined]] :
                h \in {"Bearer wrong", "Bearer CROWDdoingtools"},
                u \in {"not-a-uuid", "6f1c2a34-0b5d-4e8f-9a7b-0123456789ab"},
                a \in {"read_folder_id_all", "delete_all"}}

\* What the remote holds while /execute_tool is served.
ToolRemote ==
    [sample |-> SampleOf(<<"A@x.com", "b@x.com">>),
     a |-> HistoryOf(<<1, 2, 3>>, "a@x.com"),
     b |-> HistoryOf(<<3>>, "b@x.com"),
     searchfolders |-> FoldersOf(<<"Unread Mail", "big", "Flagged">>),
     mailFolders |-> FoldersOf(<<"Inbox", "My Search Folder">>)]

NoRequest == [action |-> "none"]
NoToolResponse == [status |-> 0]

\* res.status(n).json(body)
json(n, body) == [status |-> n, headers |-> [k \in {} |-> ""], body |-> body]

\* { user_id_used: user_id, ...payload }
spread(a, b) == [k \in DOMAIN a \cup DOMAIN b |-> IF k \in DOMAIN b THEN b[k] ELSE a[k]]

\* const ok = (payload) => { res.setHeader("X-User-Id-Used", user_id);
\*                           return res.json({ user_id_used: user_id, ...payload }) }
ok(user_id, payload) ==
    [status |-> 200,
     headers |-> [k \in {"X-User-Id-Used"} |-> user_id],
     body |-> spread([user_id_used |-> user_id], payload)]

\* err?.response?.data || err?.message || "Unknown error"
toolErrorPayload(thrown) ==
    IF "message" \in DOMAIN thrown THEN thrown.message
    ELSE IF thrown.error.hasResponse THEN thrown.error.data
    ELSE "Network Error"

\* catch (err) { return res.status(400).json({ error: payload }) }
caught(thrown) == json(400, [error |-> toolErrorPayload(thrown)])

\* The data a reader or search resolves with.
dataOf(r) == [results |-> r.results, count |-> r.count]

\* The handler from the API key check to the first await, or to the response
\* if it sends one before.
executeTool(req) ==
    /\ toolPc = "idle"
    /\ toolReq' = spread(req, [at |-> now])
    /\ LET key == providedKey(req.authorization)
           user_id == Trim(orEmpty(req.user_id))
           token == validToken(store, user_id, now)
           action == req.action
           inputs == req.inputs
           arg == Trim(stringOr(inputs.arg, ""))
           bnd == numberOr(inputs.bound, toolDefault(action))
           answer(r) == /\ toolPc' = "responded"
                        /\ toolRes' = r
                        /\ UNCHANGED <<fetchVars, scanVars, bootVars, folderVars>>
       IN IF key = Null \/ key = "" \/ key # API_KEY
          THEN answer(json(401, [error |-> "Invalid API key", requires_login |-> TRUE,
                                 login_url |-> BASE_URL \o "/login?user_id=temp"]))
          ELSE IF userIdRefused(user_id)
          THEN \E minted \in MintedIds :
                  answer(json(400, [error |-> "user_id_required", requires_login |-> TRUE,
                                    user_id |-> minted, login_url |-> loginUrl(minted)]))
          ELSE IF token = Null
          THEN answer(json(200, [requires_login |-> TRUE, user_id |-> user_id,
                                 login_url |-> loginUrl(user_id)]))
          ELSE CASE action = "list_folders" ->
                      /\ toolPc' = "awaitScan"
                      /\ beginScan("listAllFolders", 0, "")
                      /\ mailbox' = remote.mailFolders
                      /\ UNCHANGED <<faults, toolRes, bootVars, folderVars>>
                 [] action = "list_search_folders" ->
                      /\ toolPc' = "awaitFolders"
                      /\ beginSearchFolders
                      /\ UNCHANGED <<toolRes, bootVars>>
                 [] action = "search_sender_name_bootstrap" ->
                      IF arg = ""
                      THEN answer(json(400, [error |-> requiredMessage(action)]))
                      ELSE /\ toolPc' = "awaitBootstrap"
                           /\ beginBootstrap(arg, numberOr(inputs.bound, DefaultMaxAqs),
                                             DefaultPerSenderLimit)
                           /\ UNCHANGED <<toolRes, folderVars>>
                 [] action \in {"read_folder_id_all", "read_search_folder_id_all",
                                "search_by_date", "search_sender_email"} /\ arg = "" ->
                      answer(json(400, [error |-> requiredMessage(action)]))
                 [] action = "read_relative" /\ arg # "" /\ ~isValidDate(arg) ->
                      answer(caught([message |-> "Invalid 'on' date"]))
                 [] action = "delete_all" ->
                      answer(ok(user_id, [error |-> "Invalid action"]))
                 [] OTHER ->
                      /\ toolPc' = "awaitScan"
                      /\ beginScan(readerOf(action), bnd, arg)
                      /\ UNCHANGED <<mailbox, faults, toolRes, bootVars, folderVars>>
    /\ UNCHANGED toolFrame

\* The awaited call resolved: return ok(data).
toolReturns ==
    /\ LET user_id == Trim(orEmpty(toolReq.user_id))
       IN \/ /\ toolPc = "awaitScan"
             /\ scanPc \in {"returnedAtBound", "returnedAtEnd"}
             /\ toolRes' = IF toolReq.action = "list_folders"
                           THEN ok(user_id, [folders |-> result.results])
                           ELSE ok(user_id, dataOf(result))
          \/ /\ toolPc = "awaitFolders"
             /\ folderPc = "returned"
             /\ toolRes' = ok(user_id, [folders |-> folderResult.folders])
          \/ /\ toolPc = "awaitBootstrap"
             /\ bootPc = "returned"
             /\ toolRes' = ok(user_id, [results |-> bootResult.results,
                                        count |-> bootResult.count,
                                        discoveredSenders |-> bootResult.discoveredSenders])
    /\ toolPc' = "responded"
    /\ UNCHANGED <<toolReq, fetchVars, scanVars, bootVars, folderVars, toolFrame>>

\* The awaited call threw: the catch clause answers.
toolCatches ==
    /\ \/ /\ toolPc = "awaitScan"
          /\ scanPc = "failed"
          /\ toolRes' = caught(result)
       \/ /\ toolPc = "awaitFolders"
          /\ folderPc = "failed"
          /\ toolRes' = caught(folderResult)
       \/ /\ toolPc = "awaitBootstrap"
          /\ bootPc = "failed"
          /\ toolRes' = caught(bootResult)
    /\ toolPc' = "responded"
    /\ UNCHANGED <<toolReq, fetchVars, scanVars, bootVars, folderVars, toolFrame>>

\* The handler is done: its locals and those of the calls it made are gone,
\* and the next request can be served.
toolDone ==
    /\ toolPc = "responded"
    /\ toolPc' = "idle"
    /\ toolReq' = NoRequest
    /\ toolRes' = NoToolResponse
    /\ pc' = "idle" /\ url' = StartUrl /\ maxRetries' = DefaultMaxRetries
    /\ attempt' = 0 /\ gets' = 0 /\ sleeps' = <<>>
    /\ resp' = NoResp /\ outcome' = NoOutcome
    /\ scanPc' = "idle" /\ op' = "none" /\ bound' = 0 /\ out' = <<>> /\ idx' = 1
    /\ calls' = <<>> /\ used' = <<>> /\ result' = NoResult
    /\ bootPc' = "idle" /\ bootArgs' = NoArgs /\ senders' = <<>> /\ all' = <<>>
    /\ crawled' = <<>> /\ bootResult' = NoResult
    /\ folderPc' = "idle" /\ tried' = NoTry /\ folderResult' = NoResult
    /\ mailbox' = ExampleMailbox
    /\ UNCHANGED <<faults, toolFrame>>

(***************************************************************************)
(* The specifications                                                      *)
(***************************************************************************)

StoreIdle ==
    /\ store = [k \in Keys |-> NoRec]
    /\ now = 0
    /\ hist = [k \in Keys |-> NoHist]
    /\ ret = [op |-> "none"]

FetchIdle ==
    /\ pc = "idle"
    /\ url = StartUrl
    /\ maxRetries = DefaultMaxRetries
    /\ attempt = 0
    /\ gets = 0
    /\ sleeps = <<>>
    /\ resp = NoResp
    /\ outcome = NoOutcome

ScanIdle ==
    /\ scanPc = "idle"
    /\ op = "none"
    /\ bound = 0
    /\ out = <<>>
    /\ idx = 1
    /\ calls = <<>>
    /\ used = <<>>
    /\ result = NoResult

BootIdle ==
    /\ bootPc = "idle"
    /\ bootArgs = NoArgs
    /\ senders = <<>>
    /\ all = <<>>
    /\ crawled = <<>>
    /\ bootResult = NoResult

FolderIdle ==
    /\ folderPc = "idle"
    /\ tried = NoTry
    /\ folderResult = NoResult

AuthIdle ==
    /\ cb = [i \in Slots |-> NoCallback]
    /\ authRes = NoResponseSent

ToolIdle ==
    /\ toolPc = "idle"
    /\ toolReq = NoRequest
    /\ toolRes = NoToolResponse

\* Nothing but the store, the fetch or the scan is in use.
ExtIdle ==
    /\ remote = NoRemote
    /\ BootIdle
    /\ FolderIdle
    /\ AuthIdle
    /\ ToolIdle

InitStore ==
    /\ StoreIdle
    /\ FetchIdle /\ mailbox = ExampleMailbox /\ faults = {}
    /\ ScanIdle
    /\ ExtIdle

NextStore ==
    \/ \E k \in Keys : \E c \in CredFields : set(k, c)
    \/ \E k \in Keys : get(k)
    \/ \E k \in Keys : delete(k)
    \/ deleteExpired
    \/ \E k \in Keys : getValidToken(k)
    \/ Tick

SpecStore == InitStore /\ [][NextStore]_vars

InitFetch ==
    /\ StoreIdle
    /\ FetchIdle /\ mailbox = ExampleMailbox /\ faults = AllFaults
    /\ ScanIdle
    /\ ExtIdle

NextFetch ==
    \/ \E u \in {LinkOf(i) : i \in 1..Len(mailbox)} :
         \E mr \in {0, DefaultMaxRetries, BigMaxRetries} : httpGetWithBackoff(u, mr)
    \/ httpGetAttempt
    \/ httpGetWake

SpecFetch == InitFetch /\ [][NextFetch]_vars

InitScan ==
    /\ StoreIdle
    /\ FetchIdle /\ mailbox \in Mailboxes /\ faults = ScanFaults
    /\ ScanIdle
    /\ ExtIdle

NextScan ==
    \/ readLatest
    \/ readSentLatest
    \/ readAllMailbox
    \/ readFolderAll
    \/ readFolderByIdAll
    \/ filterAllMailByDate
    \/ searchAllMail
    \/ searchAllMailAllPages
    \/ searchBySenderEmail
    \/ httpGetAttempt
    \/ httpGetWake
    \/ consumeItem
    \/ pageEnd
    \/ scanThrow

SpecScan == InitScan /\ [][NextScan]_vars

Spec == SpecScan

InitBootstrap ==
    /\ StoreIdle
    /\ FetchIdle /\ mailbox = NoRemote.sample /\ faults = ScanFaults
    /\ ScanIdle
    /\ remote \in Remotes
    /\ BootIdle
    /\ FolderIdle
    /\ AuthIdle
    /\ ToolIdle

NextBootstrap ==
    \/ searchSenderByNameBootstrap
    \/ bootstrapSample
    \/ bootstrapCrawl
    \/ bootstrapThrow
    \/ httpGetAttempt
    \/ httpGetWake
    \/ consumeItem
    \/ pageEnd
    \/ scanThrow

SpecBootstrap == InitBootstrap /\ [][NextBootstrap]_vars

InitFolders ==
    /\ StoreIdle
    /\ FetchIdle /\ mailbox = NoRemote.sample /\ faults = ScanFaults
    /\ ScanIdle
    /\ remote \in FolderRemotes
    /\ BootIdle
    /\ FolderIdle
    /\ AuthIdle
    /\ ToolIdle

NextFolders ==
    \/ listAllFolders
    \/ listSearchFolders
    \/ searchFoldersTried
    \/ searchFoldersFallback
    \/ collectFolder
    \/ httpGetAttempt
    \/ httpGetWake
    \/ pageEnd
    \/ scanThrow

SpecFolders == InitFolders /\ [][NextFolders]_vars

InitAuth ==
    /\ StoreIdle
    /\ FetchIdle /\ mailbox = ExampleMailbox /\ faults = {}
    /\ ScanIdle
    /\ ExtIdle

\* One /auth/callback at a time.
NextAuth ==
    \/ \E q \in LoginQueries : login(q)
    \/ \E q \in CallbackQueries : authCallback(1, q)
    \/ exchangeReturns(1)
    \/ Tick

SpecAuth == InitAuth /\ [][NextAuth]_vars

\* The first key holds a credential that is usable until the clock reaches
\* 2 * TickMs; the second key holds none.
InitTool ==
    /\ now = 0
    /\ store = [k \in Keys |->
                  IF k = "6f1c2a34-0b5d-4e8f-9a7b-0123456789ab"
                  THEN [user_id |-> k, access_token |-> "at1", refresh_token |-> Null,
                        expiry |-> 2 * TickMs + skewMs, scopes |-> SCOPES,
                        created_at |-> 0, updated_at |-> 0]
                  ELSE NoRec]
    /\ hist = [k \in Keys |-> NoHist]
    /\ ret = [op |-> "none"]
    /\ FetchIdle /\ mailbox = ExampleMailbox /\ faults = ScanFaults
    /\ ScanIdle
    /\ remote = ToolRemote
    /\ BootIdle
    /\ FolderIdle
    /\ AuthIdle
    /\ ToolIdle

NextTool ==
    \/ \E req \in ToolRequests : executeTool(req)
    \/ toolReturns
    \/ toolCatches
    \/ toolDone
    \/ httpGetAttempt
    \/ httpGetWake
    \/ consumeItem
    \/ collectFolder
    \/ pageEnd
    \/ scanThrow
    \/ bootstrapSample
    \/ bootstrapCrawl
    \/ bootstrapThrow
    \/ searchFoldersTried
    \/ searchFoldersFallback
    \/ Tick

SpecTool == InitTool /\ [][NextTool]_vars

\* req.query of the /auth/callback requests of the server as a whole: a
\* complete one and one the provider marked as failed, both for the first
\* key.
ServerCallbacks ==
    {[code |-> "c1", state |-> "6f1c2a34-0b5d-4e8f-9a7b-0123456789ab",
      error |-> e, format |-> Undefined] : e \in {Undefined, "access_denied"}}

\* The /execute_tool requests of the server as a whole: a read for the first
\* key, and one without user_id.
ServerRequests ==
    {[authorization |-> "Bearer " \o API_KEY, user_id |-> u, action |-> "read",
      inputs |-> [bound |-> 2, arg |-> Undefined]] :
        u \in {Undefined, "6f1c2a34-0b5d-4e8f-9a7b-0123456789ab"}}

\* A row an earlier run of the server left in the table.
BootRow(k) ==
    [user_id |-> k, access_token |-> "at0", refresh_token |-> "rt0",
     expiry |-> expiryOf(0, 3600), scopes |-> SCOPES,
     created_at |-> 0, updated_at |-> 0]

\* The server after boot: the first key has no row, the second one that
\* outlives the clock of the model; no request is in progress.
InitServer ==
    /\ now = 0
    /\ store = [k \in Keys |->
                  IF k = "6f1c2a34-0b5d-4e8f-9a7b-0123456789ab"
                  THEN NoRec
                  ELSE BootRow(k)]
    /\ hist = [k \in Keys |-> NoHist]
    /\ ret = [op |-> "none"]
    /\ FetchIdle /\ mailbox = ExampleMailbox /\ faults = {}
    /\ ScanIdle
    /\ remote = ToolRemote
    /\ BootIdle
    /\ FolderIdle
    /\ AuthIdle
    /\ ToolIdle

\* Two /auth/callback requests may await the token endpoint while
\* /execute_tool is served and the sweep runs.
NextServer ==
    \/ \E i \in Slots : \E q \in ServerCallbacks : authCallback(i, q)
    \/ \E i \in Slots : exchangeReturns(i)
    \/ \E req \in ServerRequests : executeTool(req)
    \/ toolReturns
    \/ toolDone
    \/ httpGetAttempt
    \/ consumeItem
    \/ deleteExpired
    \/ Tick

SpecServer == InitServer /\ [][NextServer]_vars

\* The keys a row may be held for once /execute_tool has minted one.
MintKeys == Keys \cup MintedIds

\* req.query of the /auth/callback the login link of a minted key leads to.
MintCallbacks ==
    {[code |-> "c1", state |-> m, error |-> Undefined, format |-> Undefined] : m \in MintedIds}

\* /execute_tool requests on each of its paths: without the API key, without
\* user_id (a key is minted), with the minted key, and for the first key a
\* read, an action without its folderId, a date that is not one and an
\* unknown action.
MintRequests ==
    {[authorization |-> "Bearer " \o API_KEY, user_id |-> u, action |-> "read",
      inputs |-> [bound |-> 2, arg |-> Undefined]] :
        u \in {Undefined, "6f1c2a34-0b5d-4e8f-9a7b-0123456789ab"} \cup MintedIds}
        \cup {[authorization |-> "Bearer " \o API_KEY,
                user_id |-> "6f1c2a34-0b5d-4e8f-9a7b-0123456789ab", action |-> a,
                inputs |-> [bound |-> 0, arg |-> x]] :
                a \in {"read_folder_id_all", "read_relative", "delete_all"},
                x \in {Undefined, " x "}}
        \cup {[authorization |-> Undefined, user_id |-> Undefined, action |-> "read",
                inputs |-> [bound |-> 0, arg |-> Undefined]]}

\* The first key holds a credential that is usable until the clock reaches
\* 2 * TickMs; no other key has a row.
InitMint ==
    /\ now = 0
    /\ store = [k \in MintKeys |->
                  IF k = "6f1c2a34-0b5d-4e8f-9a7b-0123456789ab"
                  THEN [user_id |-> k, access_token |-> "at1", refresh_token |-> Null,
                        expiry |-> 2 * TickMs + skewMs, scopes |-> SCOPES,
                        created_at |-> 0, updated_at |-> 0]
                  ELSE NoRec]
    /\ hist = [k \in MintKeys |-> NoHist]
    /\ ret = [op |-> "none"]
    /\ FetchIdle /\ mailbox = ExampleMailbox /\ faults = {HttpError(404, NoHeader)}
    /\ ScanIdle
    /\ remote = ToolRemote
    /\ BootIdle
    /\ FolderIdle
    /\ AuthIdle
    /\ ToolIdle

\* The request is one the handler mints a key for.
mints(req) ==
    /\ providedKey(req.authorization) = API_KEY
    /\ userIdRefused(Trim(orEmpty(req.user_id)))

\* crypto.randomUUID() gives a key that is new: none that has a row or that
\* a callback is about to write.
unused(m) ==
    /\ store[m] = NoRec
    /\ \A i \in Slots : cb[i].pc = "exchange" => cb[i].query.state # m

\* /execute_tool with the calls of its actions, and the /auth/callback of
\* the minted key.
NextMint ==
    \/ \E q \in MintCallbacks : authCallback(1, q)
    \/ exchangeReturns(1)
    \/ \E req \in MintRequests :
        /\ toolPc = "idle"
        /\ mints(req) => \A m \in MintedIds : unused(m)
        /\ executeTool(req)
    \/ toolReturns
    \/ toolCatches
    \/ toolDone
    \/ httpGetAttempt
    \/ consumeItem
    \/ pageEnd
    \/ scanThrow
    \/ Tick

SpecMint == InitMint /\ [][NextMint]_vars


(***************************************************************************)
(* Properties of the token store (SpecStore)                               *)
(***************************************************************************)

\* C1: after set(k, c1) and then set(k, c2), get(k) returns exactly c2's
\* access_token, refresh_token (null when c2 has none), expiry and scopes,
\* with created_at that of the first set and updated_at that of the second.
C1_LastWriteWins ==
    (ret.op = "get" /\ hist[ret.key].n >= 2) =>
        LET h == hist[ret.key]
        IN ret.value =
            [user_id |-> ret.key,
             access_token |-> h.c.access_token,
             refresh_token |-> IF h.c.refresh_token = Undefined THEN Null
                               ELSE h.c.refresh_token,
             expiry |-> h.c.expiry,
             scopes |-> h.c.scopes,
             created_at |-> h.firstTs,
             updated_at |-> h.ts]

\* A get after two sets made at different times, the second without a
\* refresh token.
C1_Witness ==
    /\ ret.op = "get"
    /\ hist[ret.key].n >= 2
    /\ hist[ret.key].c.refresh_token = Undefined
    /\ ret.value.refresh_token = Null
    /\ ret.value.created_at < ret.value.updated_at

C3_SweepExact ==
    [][(ret'.op = "deleteExpired" /\ <<ret, store>>' # <<ret, store>>) =>
        LET gone == {k \in Keys : store[k] # NoRec /\ store[k].expiry <= now}
        IN /\ \A k \in Keys : store'[k] = IF k \in gone THEN NoRec ELSE store[k]
           /\ ret'.value = Cardinality(gone)
           /\ now' = now
           /\ changes(store', delExpiredStmt(store', now')) = 0]_vars

\* A sweep that removed one record and left one that expires later.
C3_Witness ==
    /\ ret.op = "deleteExpired"
    /\ ret.value = 1
    /\ ret.at = now
    /\ \E k \in Keys : store[k] # NoRec /\ store[k].expiry > now

(***************************************************************************)
(* Properties of httpGetWithBackoff (SpecFetch)                            *)
(***************************************************************************)

IsRetryable(r) == r.hasResponse /\ (r.status = 429 \/ (r.status >= 500 /\ r.status <= 599))

\* C4: a call with maxRetries = 4 issues at most 5 GETs; when the 5th
\* response is a 429 or 5xx too, the call has thrown that response as its
\* error, with 4 sleeps made (none after the 5th attempt) and no GET pending.
C4_FiveAttempts ==
    maxRetries = 4 =>
        /\ gets <= 5
        /\ (gets = 5 /\ IsRetryable(resp)) =>
              /\ pc = "thrown"
              /\ outcome = [kind |-> "throw", value |-> resp]
              /\ Len(sleeps) = 4

\* Five 503s in a row: thrown after sleeps of 1, 2, 4 and 8 seconds.
C4_Witness ==
    /\ pc = "thrown"
    /\ maxRetries = 4
    /\ gets = 5
    /\ resp = HttpError(503, NoHeader)
    /\ outcome.value.status = 503
    /\ sleeps = <<1, 2, 4, 8>>

\* C5: the sleep before a retry is the Retry-After seconds whenever the
\* response carries them (0 and values over 16 included), and
\* min(2^attempt, 16) when it carries no Retry-After.
C5_SleepIsRetryAfterOrBackoff ==
    pc = "sleep" =>
        LET last == sleeps[Len(sleeps)]
        IN /\ resp.retryAfter.kind = "seconds" => last = resp.retryAfter.n
           /\ resp.retryAfter.kind = "absent" =>
                last = (IF 2 ^ attempt < 16 THEN 2 ^ attempt ELSE 16)

\* C6: when a call returns after k retryable failures, it has slept exactly
\* k times, once between each two attempts; the attempt counter advanced on
\* every retry, so the i-th sleep is a Retry-After value or
\* min(2^(i-1), 16); and the page's items are returned in their order.
C6_SleepsBetweenAttempts ==
    /\ pc \in {"get", "returned", "thrown"} =>
          /\ Len(sleeps) = attempt
          /\ pc = "get" => gets = attempt
          /\ pc # "get" => gets = attempt + 1
    /\ \A i \in 1..Len(sleeps) :
          sleeps[i] \in {3, 20, IF 2 ^ (i - 1) < 16 THEN 2 ^ (i - 1) ELSE 16}
    /\ pc = "returned" =>
          /\ Len(sleeps) = gets - 1
          /\ Len(sleeps) <= maxRetries
          /\ \E i \in 1..Len(mailbox) :
                /\ LinkOf(i).page = url.page
                /\ outcome.value.data.value = mailbox[i]

\* [429 with Retry-After 3, 500, 500, 200]: sleeps of 3, 2 and 4 seconds,
\* then the page of two items.
C6_Witness ==
    /\ pc = "returned"
    /\ maxRetries = 4
    /\ gets = 4
    /\ sleeps = <<3, 2, 4>>
    /\ Len(outcome.value.data.value) = 2
    /\ outcome.value.data.value[1].id < outcome.value.data.value[2].id

\* C7: a failure that is neither 429 nor 5xx (any other status, or no
\* response at all) ends the call at once: it is thrown, with no sleep after
\* it and no GET after it.
C7_NoRetryOfOtherFailures ==
    (gets >= 1 /\ ~IsRetryable(resp) /\ ~(resp.hasResponse /\ resp.status = 200)) =>
        /\ pc = "thrown"
        /\ outcome = [kind |-> "throw", value |-> resp]
        /\ Len(sleeps) = gets - 1

\* A timeout after one retry, with retries left.
C7_Witness ==
    /\ pc = "thrown"
    /\ ~resp.hasResponse
    /\ gets = 2
    /\ attempt < maxRetries

(***************************************************************************)
(* Properties of the paged scans (SpecScan)                                *)
(***************************************************************************)

RECURSIVE AllItems(_, _)
\* The items of pages 1..n of mb, in page order and in link order, as they
\* come out of mapMsg.
AllItems(mb, n) ==
    IF n = 0 THEN <<>>
    ELSE AllItems(mb, n - 1) \o
         [j \in 1..Len(mb[n]) |->
            [id |-> mb[n][j].id, received |-> mb[n][j].receivedDateTime,
             from |-> mb[n][j].from]]

ScanEntered == scanPc \in {"scan", "returnedAtBound", "returnedAtEnd"} \/ (scanPc = "failed" /\ calls # <<>>)

\* C8: a scan asks for the pages in link order, a consumer of listMessages
\* with exactly the link the page before gave; what it has consumed is always a prefix of the pages'
\* items in that order; and a scan that ends at the end of the collection has
\* asked for every page once and consumed exactly the concatenation.
C8_PagesInLinkOrder ==
    ScanEntered =>
        /\ Len(calls) <= Len(mailbox)
        /\ \A i \in 1..Len(calls) : calls[i].page = LinkOf(i).page
        /\ op \in GeneratorOps => \A i \in 1..Len(calls) : calls[i] = LinkOf(i)
        /\ Len(out) <= Len(AllItems(mailbox, Len(calls)))
        /\ out = SubSeq(AllItems(mailbox, Len(mailbox)), 1, Len(out))
        /\ scanPc = "returnedAtEnd" =>
              /\ Len(calls) = Len(mailbox)
              /\ out = AllItems(mailbox, Len(mailbox))

\* Pages of 2, 2 and 1 items read to the end: 5 items after 3 page requests.
C8_Witness ==
    /\ scanPc = "returnedAtEnd"
    /\ mailbox = ExampleMailbox
    /\ Len(out) = 5
    /\ op \in GeneratorOps
    /\ calls = <<LinkOf(1), LinkOf(2), LinkOf(3)>>
    /\ calls[2].raw
    /\ result.count = 5

\* C9: a bounded scan has no page request under way once its bound was
\* reached, and when it returns, every page it was given that holds items
\* has had at least one of them consumed.
C9_NoUnconsumedPage ==
    /\ (scanPc = "scan" /\ pc \in {"get", "sleep"}) =>
          (out = <<>> \/ Len(out) < bound)
    /\ scanPc = "returnedAtBound" => pc = "returned"
    /\ scanPc \in {"returnedAtBound", "returnedAtEnd"} =>
          /\ Len(used) = Len(calls)
          /\ \A i \in 1..Len(calls) : Len(mailbox[i]) > 0 => used[i] >= 1

\* The bound is reached on the last item of the second page, which carries a
\* continuation link: the scan returns and the third page is never asked for.
C9_Witness ==
    /\ scanPc = "returnedAtBound"
    /\ Len(calls) = 2
    /\ Len(mailbox) = 3
    /\ idx = Len(pageItems)
    /\ outcome.value.data.nextLink # NoLink
    /\ Len(out) = bound

\* C10: the results returned never number more than the bound (0 and
\* negative bounds included), and count is their number.
C10_ResultsWithinBound ==
    result.kind = "return" =>
        /\ Len(result.results) <= bound
        /\ result.count = Len(result.results)

\* The received timestamps of a result never increase along it.
SortedByReceivedDesc(rs) ==
    \A i \in 1..Len(rs) : \A j \in 1..Len(rs) : i < j => rs[i].received >= rs[j].received

\* C11: every search (searchAllMail, searchAllMailAllPages,
\* searchBySenderEmail) returns its results sorted by received timestamp,
\* latest first, whether it returns at the bound or at the end of the
\* collection.
C11_SearchResultsSorted ==
    (result.kind = "return" /\ op \in LoopOps) => SortedByReceivedDesc(result.results)

(***************************************************************************)
(* Properties of the sender-name bootstrap (SpecBootstrap)                 *)
(***************************************************************************)

RECURSIVE Flatten(_)
Flatten(pages) == IF pages = <<>> THEN <<>> ELSE Head(pages) \o Flatten(Tail(pages))

\* The messages of the phase-1 sample: the first maxAqs the remote lists (at
\* least one when there is any).
SampleTaken ==
    LET items == Flatten(remote.sample)
        n == IF bootArgs.maxAqs < 1 THEN 1 ELSE bootArgs.maxAqs
    IN SubSeq(items, 1, Min(n, Len(items)))

\* The distinct lowercased sender addresses of the sample.
SampleAddresses ==
    {toLowerCase(Trim(SampleTaken[i].from)) :
        i \in {j \in 1..Len(SampleTaken) : Trim(SampleTaken[j].from) # ""}}

FirstIndexOf(items, id) == CHOOSE i \in 1..Len(items) :
    items[i].id = id /\ \A j \in 1..(i - 1) : items[j].id # id

\* C12: when searchSenderByNameBootstrap returns, it has run exactly one
\* exact-email crawl per distinct lowercased sender address of the phase-1
\* sample; its result holds each identifier of the concatenated crawls once,
\* as the first occurrence in the concatenation, sorted by received timestamp
\* descending; and with no sender address in the sample it is empty and no
\* crawl was run.
C12_BootstrapDedupes ==
    (bootPc = "returned" /\ bootResult.kind = "return") =>
        LET rs == bootResult.results
        IN /\ Len(crawled) = Cardinality(SampleAddresses)
           /\ {crawled[i] : i \in 1..Len(crawled)} = SampleAddresses
           /\ \A i \in 1..Len(rs) : \A j \in 1..Len(rs) : i # j => rs[i].id # rs[j].id
           /\ {rs[i].id : i \in 1..Len(rs)} = {all[i].id : i \in 1..Len(all)}
           /\ \A i \in 1..Len(rs) : rs[i] = all[FirstIndexOf(all, rs[i].id)]
           /\ SortedByReceivedDesc(rs)
           /\ bootResult.count = Len(rs)
           /\ SampleAddresses = {} =>
                (rs = <<>> /\ bootResult.count = 0 /\ crawled = <<>> /\ all = <<>>)

\* Crawls of 3 and 2 items that share one identifier gave 4 items.
C12_Witness ==
    /\ bootPc = "returned"
    /\ bootResult.kind = "return"
    /\ Len(crawled) = 2
    /\ Len(all) = 5
    /\ Cardinality({all[i].id : i \in 1..Len(all)}) = 4
    /\ bootResult.count = 4

(***************************************************************************)
(* Properties of listSearchFolders (SpecFolders)                           *)
(***************************************************************************)

\* C13: whenever the listing of the well-known container failed, also on a
\* later page after earlier pages gave folders, listSearchFolders falls back
\* to the scan of all folders; what it returns comes from the well-known
\* container only if that listing completed without error.
C13_FallbackOnAnyFailure ==
    (folderPc \in {"fallback", "returned", "failed"} /\ tried.ended = "failed") => tried.fellBack

(***************************************************************************)
(* Properties of the auth router (SpecAuth)                                *)
(***************************************************************************)

\* C14: an /auth/callback request with a provider error parameter, or
\* without code, or without state, is answered 400 in the step it arrives:
\* no token-exchange POST is awaited afterwards and the token store is the
\* same after the request as before it.
C14_RejectedCallbackLeavesStore ==
    [][\A i \in Slots : \A q \in CallbackQueries :
        (/\ authCallback(i, q)
         /\ \/ q.error \notin {Undefined, ""}
            \/ q.code \in {Undefined, ""}
            \/ q.state \in {Undefined, ""})
        => /\ store' = store
           /\ cb'[i].pc = "idle"
           /\ authRes'.route = "/auth/callback"
           /\ authRes'.status = 400]_vars

\* A callback was rejected for the provider's error while the store held a
\* record.
C14_Witness ==
    /\ authRes.route = "/auth/callback"
    /\ authRes.type = "text"
    /\ authRes.status = 400
    /\ authRes.body.text = "OAuth error"
    /\ \E k \in Keys : store[k] # NoRec

\* C15: when the callback's token exchange settles and the POST failed, or
\* the callback answers with an error, the step leaves every record of the
\* store as it was and no record is created.
C15_FailedExchangeLeavesStore ==
    [][\A i \in Slots :
        (/\ cb[i].pc = "exchange"
         /\ cb'[i].pc = "idle"
         /\ \/ ~authRes'.answer.hasResponse
            \/ authRes'.answer.status < 200
            \/ authRes'.answer.status >= 300
            \/ authRes'.status >= 400)
        => /\ store' = store
           /\ authRes'.status = 400]_vars

\* The write failed for a 2xx answer without access token, while the state
\* key held a record.
C15_Witness ==
    /\ authRes.route = "/auth/callback"
    /\ authRes.type = "json"
    /\ authRes.status = 400
    /\ authRes.answer.status = 200
    /\ store[authRes.req.state] # NoRec

\* C16: when the exchange for state s succeeded (a 2xx answer that holds an
\* access token), the step leaves under s a record with the answer's
\* access_token and refresh_token (null without one), the configured scopes
\* and expiry = time of the write + expires_in * 1000, and changes the
\* record of no other key.
C16_SuccessfulExchangeStored ==
    [][\A i \in Slots :
        (/\ cb[i].pc = "exchange"
         /\ cb'[i].pc = "idle"
         /\ authRes'.answer.hasResponse
         /\ authRes'.answer.status = 200
         /\ authRes'.answer.data.access_token # Undefined)
        => LET s == cb[i].query.state
               d == authRes'.answer.data
           IN /\ store'[s] # NoRec
              /\ store'[s].user_id = s
              /\ store'[s].access_token = d.access_token
              /\ store'[s].refresh_token =
                    (IF d.refresh_token = Undefined THEN Null ELSE d.refresh_token)
              /\ store'[s].scopes = "Mail.ReadWrite"
              /\ store'[s].expiry = now + d.expires_in * 1000
              /\ store'[s].updated_at = now
              /\ \A k \in Keys \ {s} : store'[k] = store[k]
              /\ authRes'.status = 200]_vars

\* An exchange without refresh token has replaced an older record, at a
\* later time, next to the record of another key.
C16_Witness ==
    /\ authRes.route = "/auth/callback"
    /\ authRes.status = 200
    /\ authRes.answer.data.refresh_token = Undefined
    /\ store[authRes.req.state].refresh_token = Null
    /\ store[authRes.req.state].created_at < store[authRes.req.state].updated_at
    /\ store[authRes.req.state].expiry = store[authRes.req.state].updated_at + 30000
    /\ \A k \in Keys : store[k] # NoRec

\* C17: GET /login answers a missing, empty or blank user_id with 400, a
\* body that holds an error and nothing else, and no redirect target; and
\* whenever it redirects, the state parameter the authorization endpoint
\* reads is the supplied user_id, trimmed.
C17_LoginNeedsIdentity ==
    authRes.route = "/login" =>
        LET supplied == IF authRes.req.user_id = Undefined THEN "" ELSE authRes.req.user_id
        IN IF Trim(supplied) = ""
           THEN /\ authRes.status = 400
                /\ DOMAIN authRes = {"route", "req", "status", "type", "body"}
                /\ DOMAIN authRes.body = {"error"}
           ELSE /\ authRes.status = 302
                /\ formDecode(authRes.location.params.state) = Trim(supplied)

\* /login was called with a blank user_id.
C17_Witness ==
    /\ authRes.route = "/login"
    /\ authRes.req.user_id = "  "
    /\ authRes.status = 400

(***************************************************************************)
(* Properties of /execute_tool (SpecTool)                                  *)
(***************************************************************************)

\* the user_id the handler works with
KeyOf(req) == Trim(IF req.user_id = Undefined THEN "" ELSE req.user_id)

\* C18: every response of /execute_tool carries the identity key used for the
\* request, as user_id_used or as user_id (the key of the request, or the
\* one minted for it).
C18_EveryResponseCarriesKey ==
    toolPc = "responded" =>
        \/ /\ "user_id_used" \in DOMAIN toolRes.body
           /\ toolRes.body.user_id_used = KeyOf(toolReq)
        \/ /\ "user_id" \in DOMAIN toolRes.body
           /\ toolRes.body.user_id \in {KeyOf(toolReq)} \cup MintedIds

\* C19: a request with the valid API key and a well-formed user_id that had
\* no usable credential when it arrived (no record, or expiry - 60000 <= the
\* time of arrival) is answered 200 with requires_login, that user_id and a
\* login_url that contains it, without an error field, and no GET was sent
\* to the remote.
C19_NoCredentialAsksForLogin ==
    (/\ toolPc # "idle"
     /\ toolReq.authorization = "Bearer " \o API_KEY
     /\ KeyOf(toolReq) \in Keys
     /\ \/ store[KeyOf(toolReq)] = NoRec
        \/ store[KeyOf(toolReq)].expiry - 60000 <= toolReq.at)
    => /\ toolPc = "responded"
       /\ toolRes.status = 200
       /\ DOMAIN toolRes.body = {"requires_login", "user_id", "login_url"}
       /\ toolRes.body.requires_login = TRUE
       /\ toolRes.body.user_id = KeyOf(toolReq)
       /\ includes(toolRes.body.login_url, "/login?user_id=" \o KeyOf(toolReq))
       /\ gets = 0
       /\ calls = <<>>
       /\ pc = "idle"

\* A request arrived for a key whose record had exactly the skew left.
C19_Witness ==
    /\ toolPc = "responded"
    /\ KeyOf(toolReq) \in Keys
    /\ store[KeyOf(toolReq)] # NoRec
    /\ store[KeyOf(toolReq)].expiry - 60000 = toolReq.at
    /\ toolRes.status = 200
    /\ "requires_login" \in DOMAIN toolRes.body

\* C20: when the remote call of an action failed with an answer of the
\* remote (a status that is not retried, or the last retry used up), the
\* response carries the status and the body of that answer.
C20_RemoteErrorSurfaces ==
    (/\ toolPc = "responded"
     /\ scanPc = "failed"
     /\ "error" \in DOMAIN result
     /\ result.error.hasResponse)
    => /\ toolRes.status = result.error.status
       /\ toolRes.body = result.error.data

\* The first of the three checks the request fails, by the request and the
\* table at the time it arrived.
GateOf(req) ==
    IF req.authorization # "Bearer " \o API_KEY THEN "api_key"
    ELSE IF KeyOf(req) \notin Keys THEN "user_id"
    ELSE IF store[KeyOf(req)] = NoRec \/ store[KeyOf(req)].expiry - 60000 <= req.at
    THEN "credential"
    ELSE "passed"

\* A call of the Graph client has been entered for the request.
RemoteCalled ==
    \/ gets > 0 \/ pc # "idle" \/ calls # <<>>
    \/ scanPc # "idle" \/ bootPc # "idle" \/ folderPc # "idle"

\* C24: a request for which the Graph client has been entered passed the
\* API key check, the user_id check and the validity check; one that fails
\* the API key check gets the 401, one that passes it and fails the
\* user_id check gets user_id_required, one that passes both and has no
\* valid token gets requires_login, whatever its action and inputs, and for
\* none of them the Graph client is entered.
C24_GateBeforeRemote ==
    toolPc # "idle" =>
        LET gate == GateOf(toolReq)
        IN /\ RemoteCalled => gate = "passed"
           /\ gate # "passed" => toolPc = "responded" /\ "user_id_used" \notin DOMAIN toolRes.body
           /\ gate = "api_key" =>
                /\ toolRes.status = 401
                /\ toolRes.body.error = "Invalid API key"
           /\ gate = "user_id" =>
                /\ toolRes.status = 400
                /\ "user_id" \in DOMAIN toolRes.body
                /\ toolRes.body.error = "user_id_required"
                /\ toolRes.body.user_id \in MintedIds
           /\ gate = "credential" =>
                /\ toolRes.status = 200
                /\ "error" \notin DOMAIN toolRes.body
                /\ toolRes.body.user_id = KeyOf(toolReq)

\* A request with the API key, a malformed user_id and an action that lacks
\* its folderId has been answered user_id_required.
C24_Witness ==
    /\ toolPc = "responded"
    /\ toolReq.authorization = "Bearer " \o API_KEY
    /\ toolReq.user_id = "not-a-uuid"
    /\ toolReq.action = "read_folder_id_all"
    /\ toolReq.inputs.arg = Undefined
    /\ toolRes.status = 400
    /\ "user_id" \in DOMAIN toolRes.body
    /\ ~RemoteCalled

(***************************************************************************)
(* Properties of the server as a whole (SpecServer)                        *)
(***************************************************************************)

TokenFields(r) == <<r.access_token, r.refresh_token, r.expiry>>

\* The step is the completion of an /auth/callback for key k that wrote the
\* row and answered 200.
ExchangeSucceeds(k) ==
    \E i \in Slots :
        /\ cb[i].pc = "exchange"
        /\ cb[i].query.state = k
        /\ cb'[i] = NoCallback
        /\ authRes'.status = 200
        /\ exchangeReturns(i)

\* No response carries a refresh_token.
NoRefreshTokenSent ==
    /\ "body" \in DOMAIN toolRes => "refresh_token" \notin DOMAIN toolRes.body
    /\ "body" \in DOMAIN authRes => "refresh_token" \notin DOMAIN authRes.body

\* C21: the token fields of a row are written, and a row is created, only by
\* the successful completion of an /auth/callback for its key; no response
\* carries the refresh_token; and a key without a usable token gets one only
\* by such a completion.
C21_TokenFieldsOnlyByExchange ==
    /\ []NoRefreshTokenSent
    /\ [][\A k \in DOMAIN store :
            /\ (/\ store'[k] # NoRec
                /\ \/ store[k] = NoRec
                   \/ TokenFields(store'[k]) # TokenFields(store[k]))
               => ExchangeSucceeds(k)
            /\ (validToken(store, k, now) = Null /\ validToken(store', k, now') # Null)
               => ExchangeSucceeds(k)]_vars

\* The first key was written twice, its token has become unusable, and
\* /execute_tool has answered a request for it with requires_login.
C21_Witness ==
    LET k == "6f1c2a34-0b5d-4e8f-9a7b-0123456789ab"
    IN /\ store[k] # NoRec
       /\ hist[k].n = 2
       /\ ~usable(store[k], now)
       /\ toolPc = "responded"
       /\ toolReq.user_id = k
       /\ "requires_login" \in DOMAIN toolRes.body

\* The token fields of the row are those of one 2xx answer of the token
\* endpoint, written at the row's updated_at.
FromOneExchange(rec) ==
    \E r \in TokenAnswers :
        /\ r.status = 200
        /\ r.data.access_token # Undefined
        /\ rec.access_token = r.data.access_token
        /\ rec.refresh_token = (IF r.data.refresh_token = Undefined THEN Null
                                ELSE r.data.refresh_token)
        /\ rec.expiry = rec.updated_at + r.data.expires_in * 1000
        /\ rec.scopes = SCOPES

\* C22: with /auth/callback completions, tool invocations and sweeps
\* interleaved, the row of a key is the row of that key, its token fields
\* are those one successful exchange wrote (or the row is the one found at
\* boot), never a mix; the completion that writes leaves exactly its own
\* fields in the row of its key and leaves every other row as it was.
C22_RowIsOneExchange ==
    /\ [](\A k \in DOMAIN store :
            store[k] # NoRec =>
                /\ store[k].user_id = k
                /\ FromOneExchange(store[k]) \/ store[k] = BootRow(k))
    /\ [][\A i \in Slots :
            (cb[i].pc = "exchange" /\ cb'[i] = NoCallback /\ authRes'.status = 200)
            => LET k == cb[i].query.state
                   r == authRes'.answer
               IN /\ store'[k].access_token = r.data.access_token
                  /\ store'[k].expiry = now + r.data.expires_in * 1000
                  /\ store'[k].updated_at = now
                  /\ store'[k].refresh_token \in {Null, r.data.refresh_token}
                  /\ \A j \in DOMAIN store \ {k} : store'[j] = store[j]]_vars

\* One /auth/callback for the first key has written over the row of an
\* earlier one while another for the same key still awaits the token
\* endpoint, and the row of the second key is there.
C22_Witness ==
    LET k == "6f1c2a34-0b5d-4e8f-9a7b-0123456789ab"
    IN /\ store[k] # NoRec
       /\ store[k].created_at < store[k].updated_at
       /\ store[k].refresh_token = Null
       /\ authRes.status = 200
       /\ \E i \in Slots : cb[i].pc = "exchange" /\ cb[i].query.state = k
       /\ \E j \in DOMAIN store \ {k} : store[j] # NoRec

(***************************************************************************)
(* The sweep and the validity check (SpecStore)                            *)
(***************************************************************************)

\* The time of the step and times after it, on and off the ticks of the clock.
TimesFrom(t) == {t, t + 1, t + skewMs - 1, t + skewMs, t + TickMs, t + 4 * TickMs}

\* C23: a sweep changes no answer of the validity check, at the time it runs
\* or later, for the table as it is and for the table after any next write:
\* the rows it removes are rows getValidToken gives null for.
C23_SweepChangesNoAnswer ==
    [][deleteExpired =>
        \A k \in Keys : \A t \in TimesFrom(now) :
            /\ validToken(store', k, t) = validToken(store, k, t)
            /\ \A c \in CredFields :
                validToken(upsertStmt(store', k, c, now), k, t)
                    = validToken(upsertStmt(store, k, c, now), k, t)]_vars

\* A sweep has just removed a row, and has left one that has not expired
\* but is within the skew, so that the validity check gives null for it.
C23_Witness ==
    /\ ret.op = "deleteExpired"
    /\ ret.at = now
    /\ ret.value >= 1
    /\ \E k \in Keys :
        /\ store[k] # NoRec
        /\ store[k].expiry > now
        /\ validToken(store, k, now) = Null

(***************************************************************************)
(* /execute_tool and the token store (SpecMint)                            *)
(***************************************************************************)

\* The step belongs to /execute_tool or to a Graph call it awaits.
ToolStep == <<toolVars, fetchVars, scanVars, bootVars, folderVars>>' #
                <<toolVars, fetchVars, scanVars, bootVars, folderVars>>

\* C25: no step of /execute_tool, nor of a Graph call it awaits, changes the
\* tokens table, the step that mints a key included; and the minted key
\* gets a row only by the successful completion of an /auth/callback whose
\* state it is.
C25_ToolLeavesStore ==
    [][/\ ToolStep => store' = store
       /\ \A m \in MintedIds :
            (store[m] = NoRec /\ store'[m] # NoRec) =>
                /\ cb[1].pc = "exchange"
                /\ cb[1].query.state = m
                /\ cb'[1] = NoCallback
                /\ authRes'.status = 200]_vars

\* A key has been minted and handed out in user_id_required, it has no row,
\* and the /auth/callback that carries it as state awaits the token
\* endpoint.
C25_Witness ==
    /\ toolPc = "responded"
    /\ toolRes.status = 400
    /\ "user_id" \in DOMAIN toolRes.body
    /\ toolRes.body.user_id \in MintedIds
    /\ store[toolRes.body.user_id] = NoRec
    /\ cb[1].pc = "exchange"
    /\ cb[1].query.state = toolRes.body.user_id

(***************************************************************************)
(* Retries and failures within a scan (SpecScan)                           *)
(***************************************************************************)

\* C26: every page of a scan is fetched by a call of its own: whatever the
\* call for the page before used up, the call for the next page starts with
\* attempt 0, no GET issued, nothing slept and maxRetries 4; on every page
\* the sleeps without Retry-After run 1, 2, 4, 8 seconds from the start and
\* at most 5 GETs are issued, so that n pages take at most 5n.
C26_RetryBudgetPerPage ==
    /\ [](scanPc # "idle" =>
            /\ gets <= 5
            /\ Len(sleeps) <= 4
            /\ \A i \in 1..Len(sleeps) : sleeps[i] = 2 ^ (i - 1)
            /\ attempt = Len(sleeps) - (IF pc = "sleep" THEN 1 ELSE 0))
    /\ [][(scanPc = "scan" /\ calls' # calls) =>
            /\ Len(calls') = Len(calls) + 1
            /\ attempt' = 0
            /\ gets' = 0
            /\ sleeps' = <<>>
            /\ maxRetries' = 4
            /\ pc' = "get"]_vars

\* The page after one whose items were consumed took five GETs, with sleeps
\* of 1, 2, 4 and 8 seconds, and the fifth failed as well.
C26_Witness ==
    /\ scanPc = "scan"
    /\ Len(calls) = 2
    /\ used[1] >= 1
    /\ gets = 5
    /\ sleeps = <<1, 2, 4, 8>>
    /\ pc = "thrown"

(***************************************************************************)
(* A page that fails within a scan (SpecTool)                              *)
(***************************************************************************)

\* C27: once the call for a page of a reader or search has thrown, the
\* reader or search has thrown as well: it gives no results, /execute_tool
\* answers 400 with nothing but the error, and until the handler is done no
\* further GET is issued and the scan stays failed.
C27_FailedPageFailsScan ==
    /\ []((pc = "thrown" /\ scanPc \notin {"idle", "scan"} /\ op \notin FolderOps) =>
            /\ scanPc = "failed"
            /\ result.kind = "throw"
            /\ "results" \notin DOMAIN result
            /\ toolPc \in {"awaitScan", "awaitBootstrap", "responded"}
            /\ toolPc = "responded" =>
                 /\ toolRes.status = 400
                 /\ DOMAIN toolRes.body = {"error"})
    /\ [][(scanPc = "failed" /\ op \notin FolderOps /\ scanPc' # "idle") =>
            UNCHANGED <<scanPc, pc, calls, gets, url, result>>]_vars

\* readAllMailbox had collected the items of the first page when the GET of
\* the second page failed, and /execute_tool has answered.
C27_Witness ==
    /\ toolPc = "responded"
    /\ scanPc = "failed"
    /\ op = "readAllMailbox"
    /\ Len(calls) = 2
    /\ Len(out) = 2
    /\ pc = "thrown"
    /\ toolRes.status = 400

====
